---- MODULE Spec2Model ----
(***************************************************************************)
(* Merge lock and intent-aware merge orchestration of auto-claude          *)
(* (auto-claude/workspace.py).                                             *)
(*                                                                         *)
(* SpecLock : NumProcs processes, each running `with MergeLock(...)` as    *)
(*            _try_smart_merge does, step by step (exists / read / unlink  *)
(*            / write / exists / unlink), with time passing.               *)
(* Spec     : one process running merge_existing_build from its call to    *)
(*            its return, against a lock file left by other invocations.   *)
(* SpecEngine    : one call of _merge_file_with_ai on every combination of *)
(*            path suffix, contents, AI caller and project_dir.            *)
(* SpecWorkspace : one call of choose_workspace on every combination of    *)
(*            flags, `git status` output and user replies.                 *)
(* SpecDiscard   : one call of discard_existing_build and one call of      *)
(*            finalize_workspace on every build state and user input.      *)
(* SpecValidate, SpecSetup : _validate_merged_syntax and setup_workspace.  *)
(* SpecStatus, SpecAutoFix : _normalize_status and auto_fix_plan of        *)
(*            apps/backend/spec/validate_pkg/auto_fix.py.                  *)
(***************************************************************************)
EXTENDS Integers, Sequences, FiniteSets, TLC

\* ------------------------------------------------------------------ bounds
NumProcs == 2
MaxTicks == 1
NumFiles == 2

\* --------------------------------------------------------------- constants
MERGE_LOCK_TIMEOUT == 300

Procs == 1..NumProcs
Self == 1
\* a live process of another user: os.kill(pid, 0) fails with EPERM
OtherUserPid == NumProcs + 1
\* a pid no process has
DeadPid == NumProcs + 2
\* a live process of this user that is none of the merging processes
LivePid == NumProcs + 3
StartTime == 4 * MERGE_LOCK_TIMEOUT
Files == 1..NumFiles

VARIABLES
    \* ---- lock directory and clock
    lockFile,      \* content of .auto-claude/.locks/merge-<spec>.lock
    now,           \* time.time()
    \* ---- per process
    pc,            \* position of each process
    acquired,      \* MergeLock.acquired of the process's current instance
    exc,           \* exception propagating out of the `with` body
    unlink_error,  \* __exit__ swallowed an error of lock_file.unlink()
    reclaimed,     \* the lock file content this __enter__ removed, until the body starts
    \* ---- merge_existing_build of process Self
    no_commit, use_smart_merge,
    repo,          \* per file: on the base branch? on the spec branch? diff status
    worktree,      \* .worktrees/<spec> (and the branch auto-claude/<spec>) exists
    tree, index,   \* main checkout: working tree and index content per file
    committed,     \* a commit was created on the base branch
    git_conflicts, \* result of _check_git_conflicts
    todo,          \* files the running loop has still to process
    resolved_files, remaining_conflicts,
    captured, refreshed,   \* tracker calls made before resolution
    evolution, timeline,   \* completion recording in the two trackers
    preview,       \* conflicts reported by orchestrator.preview_merge
    smart_result,  \* what _try_smart_merge returned
    mwCalls,       \* invocations of WorktreeManager.merge_worktree
    result,        \* what merge_existing_build returned
    \* ---- one call of _merge_file_with_ai
    file_path,     \* the suffix of the path
    main_content, worktree_content, base_content,
    ai_call_fn,    \* resolver.ai_call_fn is set
    project_dir,   \* project_dir was passed
    epc,           \* position of the call
    ai_calls,      \* the prompts resolver.ai_call_fn was called with, in order
    region_check, full_check, retry_check,   \* how each AI answer turned out
    returned,      \* what _merge_file_with_ai returned
    \* ---- one call of choose_workspace
    force_isolated, force_direct, auto_continue,
    status_output, \* stdout of `git status --porcelain`
    prompt_reply,  \* what the user does at "Press Enter to continue..."
    menu_choice,   \* what select_menu returns
    mode,          \* what choose_workspace returned
    \* ---- one call of discard_existing_build, one of finalize_workspace
    existing_build, \* .worktrees/<spec> and the branch of the spec exist
    typed,         \* what input() yields at the confirmation prompt
    confirmation,  \* input().strip().lower()
    dpc,           \* position of the call of discard_existing_build
    discarded,     \* what discard_existing_build returned
    manager,       \* finalize_workspace got a WorktreeManager (not None)
    workspace_choice,        \* what finalize_workspace returned
    \* ---- one call of _validate_merged_syntax
    vpath,         \* the suffix of the file_path argument
    ext,           \* P(file_path).suffix.lower()
    decodes,       \* json.loads accepts the content
    compiles,      \* compile(content, file_path, 'exec') accepts the content
    tsc, eslint,   \* how the two checker runs ended
    vpc,           \* position of the call
    is_valid,      \* first component of the returned tuple
    \* ---- setup_workspace calls of one process
    _git_hook_check_done,  \* the module-level flag
    hook,          \* .git/hooks/post-commit: "none", "other", "timeline"
    setups,        \* calls of setup_workspace made so far
    spc,           \* position of the running call
    hook_checks,   \* times the body of _ensure_timeline_hook_installed ran
    install_calls, \* times install_hook was called
    hook_outcome,  \* how the hook step of the running call ended
    setup_result,  \* how the last call of setup_workspace ended
    \* ---- _normalize_status applied to a value, then to its own results
    status_value,  \* the argument of the first call
    status_results, \* what the calls returned, in order
    \* ---- calls of auto_fix_plan on one spec directory
    plan_file,     \* spec_dir / "implementation_plan.json"
    fix_calls      \* one record per call made: what it found, did and returned

lockVars == <<lockFile, now, pc, acquired, exc, unlink_error, reclaimed>>
mergeVars == <<no_commit, use_smart_merge, repo, worktree, tree, index, committed,
               git_conflicts, todo, resolved_files, remaining_conflicts,
               captured, refreshed, evolution, timeline, preview,
               smart_result, mwCalls, result>>
engineVars == <<file_path, main_content, worktree_content, base_content, ai_call_fn,
                project_dir, epc, ai_calls, region_check, full_check, retry_check,
                returned>>
workspaceVars == <<force_isolated, force_direct, auto_continue, status_output,
                   prompt_reply, menu_choice, mode>>
discardVars == <<existing_build, typed, confirmation, dpc, discarded, manager, workspace_choice>>
validateVars == <<vpath, ext, decodes, compiles, tsc, eslint, vpc, is_valid>>
setupVars == <<_git_hook_check_done, hook, setups, spc, hook_checks, install_calls,
               hook_outcome, setup_result>>
statusVars == <<status_value, status_results>>
planVars == <<plan_file, fix_calls>>
fixVars == <<statusVars, planVars>>
helperVars == <<validateVars, setupVars, fixVars>>
functionVars == <<engineVars, workspaceVars, discardVars, helperVars>>
vars == <<lockFile, now, pc, acquired, exc, unlink_error, reclaimed, no_commit, use_smart_merge, repo,
          worktree, tree, index, committed, git_conflicts, todo, resolved_files,
          remaining_conflicts, captured, refreshed, evolution, timeline,
          preview, smart_result, mwCalls, result, engineVars, workspaceVars,
          discardVars, helperVars>>

\* ------------------------------------------------------------ lock records
NoFile == [kind |-> "none", pid |-> 0, ts |-> 0]
\* json.dumps({"spec_name", "timestamp", "pid"})
LockRecord(pid, ts) == [kind |-> "ok", pid |-> pid, ts |-> ts]
\* content that json.loads rejects / accepts as a non-object / an object whose
\* timestamp is not a number
Malformed(k) == [kind |-> k, pid |-> 0, ts |-> 0]

\* os.kill(pid, 0): any OSError (no such process, permission denied) -> False
_is_process_running(pid) == pid \in Procs \cup {LivePid}

\* time.time() - lock_time > MERGE_LOCK_TIMEOUT
IsStale(t, lock_time) == t - lock_time > MERGE_LOCK_TIMEOUT

\* lock_pid and not _is_process_running(lock_pid)
IsOrphan(lock_pid) == lock_pid # 0 /\ ~_is_process_running(lock_pid)

\* Variant: only the age of a record is looked at, never its pid.
EnterDecision_AgeOnly(content, t) ==
    CASE content.kind = "notjson" -> "unlink"
      [] content.kind = "notobject" -> "error"
      [] content.kind = "badtype" -> "error"
      [] OTHER -> IF IsStale(t, content.ts) THEN "unlink" ELSE "held"

\* The try block of __enter__ on the content read from the lock file:
\* "unlink" (stale, orphaned or not JSON), "held" (MergeLockError) or
\* "error" (an exception the block does not catch).
EnterDecision(content, t) ==
    CASE content.kind = "notjson" -> "unlink"
      [] content.kind = "notobject" -> "error"
      [] content.kind = "badtype" -> "error"
      [] OTHER ->
            IF IsStale(t, content.ts) THEN "unlink"
            ELSE IF IsOrphan(content.pid) THEN "unlink"
            ELSE "held"

\* The process is between a completed __enter__ and the end of __exit__.
HeldPcs == {"locked", "refresh", "check", "resolve", "copy", "record",
            "preview", "exit_check", "exit_unlink"}
Holding(p) == acquired[p] /\ pc[p] \in HeldPcs

\* ------------------------------------------------------- MergeLock.__enter__
\* MergeLock.__init__ and the start of __enter__: mkdir, lock_file.exists()
EnterExists(p) ==
    /\ pc[p] = "enter_exists"
    /\ pc' = [pc EXCEPT ![p] = IF lockFile = NoFile THEN "enter_write" ELSE "enter_read"]
    /\ UNCHANGED <<lockFile, now, acquired, exc,
                   unlink_error, reclaimed>>

\* read_text, json.loads and the staleness / liveness tests
EnterRead(p) ==
    /\ pc[p] = "enter_read"
    /\ pc' = [pc EXCEPT ![p] =
                IF lockFile = NoFile THEN "raised"   \* FileNotFoundError
                ELSE CASE EnterDecision(lockFile, now) = "unlink" -> "enter_unlink"
                       [] EnterDecision(lockFile, now) = "held" -> "lockerr"
                       [] OTHER -> "raised"]
    /\ UNCHANGED <<lockFile, now, acquired, exc,
                   unlink_error, reclaimed>>

\* lock_file.unlink() of a stale, orphaned or corrupted lock
EnterUnlink(p) ==
    /\ pc[p] = "enter_unlink"
    /\ IF lockFile = NoFile
       THEN /\ pc' = [pc EXCEPT ![p] = "raised"]   \* FileNotFoundError
            /\ UNCHANGED <<lockFile, reclaimed>>
       ELSE /\ lockFile' = NoFile
            /\ reclaimed' = [reclaimed EXCEPT ![p] = lockFile]
            /\ pc' = [pc EXCEPT ![p] = "enter_write"]
    /\ UNCHANGED <<now, acquired, exc,
                   unlink_error>>

\* lock_file.write_text(json.dumps(lock_data)); self.acquired = True
EnterWrite(p) ==
    /\ pc[p] = "enter_write"
    /\ lockFile' = LockRecord(p, now)
    /\ acquired' = [acquired EXCEPT ![p] = TRUE]
    /\ pc' = [pc EXCEPT ![p] = "locked"]
    /\ UNCHANGED <<now, exc,
                   unlink_error, reclaimed>>

\* -------------------------------------------------------- MergeLock.__exit__
\* if self.acquired and self.lock_file.exists()
ExitCheck(p) ==
    /\ pc[p] = "exit_check"
    /\ pc' = [pc EXCEPT ![p] =
                IF acquired[p] /\ lockFile # NoFile THEN "exit_unlink" ELSE "released"]
    /\ UNCHANGED <<lockFile, now, acquired, exc,
                   unlink_error, reclaimed>>

\* Variant: an error of unlink() is not swallowed and leaves __exit__.
ExitUnlink_RaiseOnError(p) ==
    /\ pc[p] = "exit_unlink"
    /\ \E unlink_ok \in BOOLEAN :
          /\ lockFile' = IF unlink_ok THEN NoFile ELSE lockFile
          /\ unlink_error' = [unlink_error EXCEPT ![p] = ~unlink_ok \/ lockFile = NoFile]
          /\ pc' = [pc EXCEPT ![p] = IF unlink_ok /\ lockFile # NoFile
                                     THEN "released" ELSE "raised"]
    /\ UNCHANGED <<now, acquired, exc, reclaimed>>

\* try: self.lock_file.unlink()  except Exception: pass
ExitUnlink(p) ==
    /\ pc[p] = "exit_unlink"
    /\ \E unlink_ok \in BOOLEAN :
          /\ lockFile' = IF unlink_ok THEN NoFile ELSE lockFile
          /\ unlink_error' = [unlink_error EXCEPT ![p] = ~unlink_ok \/ lockFile = NoFile]
    /\ pc' = [pc EXCEPT ![p] = "released"]
    /\ UNCHANGED <<now, acquired, exc, reclaimed>>

\* ------------------------------------------------ SpecLock: the lock alone
\* A process enters _try_smart_merge: MergeLock(project_dir, spec_name)
LockBegin(p) ==
    /\ pc[p] = "idle"
    /\ pc' = [pc EXCEPT ![p] = "enter_exists"]
    /\ acquired' = [acquired EXCEPT ![p] = FALSE]
    /\ exc' = [exc EXCEPT ![p] = "none"]
    /\ unlink_error' = [unlink_error EXCEPT ![p] = FALSE]
    /\ UNCHANGED <<lockFile, now, reclaimed>>

\* The body of the `with`: _try_smart_merge_inner returns (it catches every
\* Exception itself) or is interrupted.
Body(p) ==
    /\ pc[p] = "locked"
    /\ \E e \in {"none", "KeyboardInterrupt"} : exc' = [exc EXCEPT ![p] = e]
    /\ pc' = [pc EXCEPT ![p] = "exit_check"]
    /\ reclaimed' = [reclaimed EXCEPT ![p] = NoFile]
    /\ UNCHANGED <<lockFile, now, acquired,
                   unlink_error>>

\* _try_smart_merge is left (return, MergeLockError handled, or an exception
\* propagating); the process may merge again later.
LockEnd(p) ==
    /\ pc[p] \in {"released", "lockerr", "raised"}
    /\ pc' = [pc EXCEPT ![p] = "idle"]
    /\ UNCHANGED <<lockFile, now, acquired, exc,
                   unlink_error, reclaimed>>

\* Time passes: exactly the timeout, or just more than it.
Tick ==
    /\ \E d \in {MERGE_LOCK_TIMEOUT, MERGE_LOCK_TIMEOUT + 1} :
          /\ now + d <= StartTime + MaxTicks * (MERGE_LOCK_TIMEOUT + 1)
          /\ now' = now + d
    /\ UNCHANGED <<lockFile, pc, acquired, exc,
                   unlink_error, reclaimed>>

\* Lock files an earlier invocation may have left behind.
InitLockFiles ==
    {NoFile}
    \cup {LockRecord(pid, ts) : pid \in {LivePid, OtherUserPid, DeadPid, 0},
                                ts \in {StartTime, StartTime - MERGE_LOCK_TIMEOUT - 1}}
    \cup {Malformed(k) : k \in {"notjson", "notobject", "badtype"}}

\* smart_result before _try_smart_merge has returned; the fields are the keys
\* merge_existing_build reads with .get()
NoResult == [kind |-> "unset", success |-> FALSE, ai_assisted |-> 0, files_merged |-> 0,
             git_conflicts |-> FALSE, conflicts |-> {}, resolved |-> <<>>, error |-> ""]

\* ---- values of _merge_file_with_ai
\* a str: which text it is (0: the empty string) and its count of '\n'
Text(i, n) == [kind |-> "text", id |-> i, nl |-> n]
EmptyText == Text(0, 0)
NoneValue == [kind |-> "None", id |-> 0, nl |-> 0]
\* code taken from an AI answer: "merged_regions", "merged_full", "merged_retry"
AIText(k) == [kind |-> k, id |-> 0, nl |-> 0]
Pending == [kind |-> "pending", id |-> 0, nl |-> 0]

InitEngineIdle ==
    /\ file_path = "" /\ main_content = EmptyText /\ worktree_content = EmptyText
    /\ base_content = NoneValue
    /\ ai_call_fn = FALSE /\ project_dir = FALSE
    /\ epc = "idle"
    /\ ai_calls = <<>>
    /\ region_check = "none" /\ full_check = "none" /\ retry_check = "none"
    /\ returned = Pending

InitWorkspaceIdle ==
    /\ force_isolated = FALSE /\ force_direct = FALSE /\ auto_continue = FALSE
    /\ status_output = "" /\ prompt_reply = "enter" /\ menu_choice = "isolated"
    /\ mode = "idle"

InitValidateIdle ==
    /\ vpath = "" /\ ext = "" /\ decodes = TRUE /\ compiles = TRUE
    /\ tsc = "none" /\ eslint = "none"
    /\ vpc = "idle" /\ is_valid = "unset"

InitSetupIdle ==
    /\ _git_hook_check_done = FALSE /\ hook = "none"
    /\ setups = 0 /\ spc = "idle"
    /\ hook_checks = 0 /\ install_calls = 0
    /\ hook_outcome = "none" /\ setup_result = "none"

InitFixIdle ==
    /\ status_value = "idle" /\ status_results = <<>>
    /\ plan_file = "idle" /\ fix_calls = <<>>

InitHelpersIdle == InitValidateIdle /\ InitSetupIdle /\ InitFixIdle

InitDiscardIdle ==
    /\ existing_build = TRUE /\ typed = "" /\ confirmation = "unset"
    /\ dpc = "idle" /\ discarded = "unset"
    /\ manager = TRUE /\ workspace_choice = "idle"

InitMergeIdle ==
    /\ no_commit = FALSE /\ use_smart_merge = FALSE
    /\ committed = FALSE
    /\ git_conflicts = [has_conflicts |-> FALSE, conflicting_files |-> {}]
    /\ todo = {}
    /\ resolved_files = <<>> /\ remaining_conflicts = {}
    /\ captured = FALSE /\ refreshed = FALSE
    /\ evolution = "none" /\ timeline = "none"
    /\ smart_result = NoResult
    /\ preview = {}
    /\ mwCalls = 0
    /\ result = "none"

InitLock ==
    /\ lockFile \in InitLockFiles
    /\ now = StartTime
    /\ pc = [p \in Procs |-> "idle"]
    /\ acquired = [p \in Procs |-> FALSE]
    /\ exc = [p \in Procs |-> "none"]
    /\ unlink_error = [p \in Procs |-> FALSE]
    /\ reclaimed = [p \in Procs |-> NoFile]
    /\ repo = [f \in Files |-> [inMain |-> TRUE, inSpec |-> TRUE, status |-> "-"]]
    /\ worktree = TRUE
    /\ tree = [f \in Files |-> "main"]
    /\ index = [f \in Files |-> "main"]
    /\ InitMergeIdle
    /\ InitEngineIdle /\ InitWorkspaceIdle /\ InitDiscardIdle /\ InitHelpersIdle

NextLock ==
    \/ \E p \in Procs : LockBegin(p) /\ UNCHANGED <<mergeVars, functionVars>>
    \/ \E p \in Procs : EnterExists(p) /\ UNCHANGED <<mergeVars, functionVars>>
    \/ \E p \in Procs : EnterRead(p) /\ UNCHANGED <<mergeVars, functionVars>>
    \/ \E p \in Procs : EnterUnlink(p) /\ UNCHANGED <<mergeVars, functionVars>>
    \/ \E p \in Procs : EnterWrite(p) /\ UNCHANGED <<mergeVars, functionVars>>
    \/ \E p \in Procs : Body(p) /\ UNCHANGED <<mergeVars, functionVars>>
    \/ \E p \in Procs : ExitCheck(p) /\ UNCHANGED <<mergeVars, functionVars>>
    \/ \E p \in Procs : ExitUnlink(p) /\ UNCHANGED <<mergeVars, functionVars>>
    \/ \E p \in Procs : LockEnd(p) /\ UNCHANGED <<mergeVars, functionVars>>
    \/ Tick /\ UNCHANGED <<mergeVars, functionVars>>

SpecLock == InitLock /\ [][NextLock]_vars

\* ======================================================================
\* merge_existing_build of process Self
\* ======================================================================

\* Python values compared by the `in` of a list comprehension: a path is a
\* str, an entry of _get_changed_files_from_branch is a (path, status) tuple,
\* and a tuple never equals a str.
PyStr(f) == [type |-> "str", path |-> f, status |-> ""]
PyTuple(f, s) == [type |-> "tuple", path |-> f, status |-> s]

Min(S) == CHOOSE x \in S : \A y \in S : x <= y

\* What git knows of one path: present on the base branch, present on the
\* spec branch, and its status in `git diff --name-status base...spec`
\* ("-" : not listed).
FileCases ==
    { [inMain |-> TRUE,  inSpec |-> TRUE,  status |-> "M"],
      [inMain |-> FALSE, inSpec |-> TRUE,  status |-> "A"],
      [inMain |-> TRUE,  inSpec |-> FALSE, status |-> "D"],
      [inMain |-> FALSE, inSpec |-> FALSE, status |-> "D"],
      [inMain |-> TRUE,  inSpec |-> TRUE,  status |-> "-"] }

\* _get_file_content_from_ref(project_dir, ref, file_path): None when git show fails
MainContent(f) == IF repo[f].inMain THEN "main" ELSE "None"
WorktreeContent(f) == IF repo[f].inSpec THEN "spec" ELSE "None"

\* _get_changed_files_from_branch: [(file_path, status)]
ChangedFiles == {PyTuple(f, repo[f].status) : f \in {g \in Files : repo[g].status # "-"}}

\* non_conflicting = [f for f in changed_files if f not in conflicting_files]
NonConflicting(changed_files, conflicting_files) ==
    {cf \in changed_files : cf \notin {PyStr(f) : f \in conflicting_files}}

\* `return None` of _try_smart_merge_inner
NoneResult == [NoResult EXCEPT !.kind = "None"]
\* the dict built by `except MergeLockError`
LockHeldResult == [NoResult EXCEPT !.kind = "dict", !.error = "LockHeld"]
\* the dict _try_smart_merge_inner builds from a failed resolution
GitConflictResult(resolved, remaining) ==
    [NoResult EXCEPT !.kind = "dict", !.git_conflicts = TRUE,
                     !.conflicts = remaining, !.resolved = resolved]
\* the success dict of _resolve_git_conflicts_with_ai
ResolutionSuccess(resolved, conflicting_files) ==
    [NoResult EXCEPT !.kind = "dict", !.success = TRUE, !.resolved = resolved,
                     !.files_merged = Len(resolved),
                     !.ai_assisted = Cardinality(conflicting_files)]
\* the two dicts after preview_merge
SemanticConflictResult(needs_human) ==
    [NoResult EXCEPT !.kind = "dict", !.conflicts = needs_human]
PreviewSuccess(n) ==
    [NoResult EXCEPT !.kind = "dict", !.success = TRUE, !.files_merged = n]

RemainingConflict(f) == [file |-> f, severity |-> "high", can_auto_merge |-> FALSE]

\* Variant: an exception leaves the block without __exit__ being run.
LeaveWith_SkipExitOnError(e) ==
    /\ pc' = [pc EXCEPT ![Self] = IF e = "none" THEN "exit_check" ELSE "released"]
    /\ exc' = [exc EXCEPT ![Self] = e]

\* The process leaves the `with` block: __exit__ runs next.
LeaveWith(e) ==
    /\ pc' = [pc EXCEPT ![Self] = "exit_check"]
    /\ exc' = [exc EXCEPT ![Self] = e]

\* Variant: the merge goes ahead without looking for .worktrees/<spec>.
MergeCall_NoWorktreeCheck ==
    /\ pc[Self] = "idle"
    /\ result = "none"
    /\ \E nc \in BOOLEAN, usm \in BOOLEAN :
          /\ no_commit' = nc
          /\ use_smart_merge' = usm
          /\ pc' = [pc EXCEPT ![Self] = IF usm THEN "enter_exists" ELSE "fallback"]
    /\ acquired' = [acquired EXCEPT ![Self] = FALSE]
    /\ UNCHANGED <<lockFile, now, exc, unlink_error, reclaimed, repo, worktree, tree,
                   index, committed, git_conflicts, todo, resolved_files,
                   remaining_conflicts, captured, refreshed, evolution, timeline,
                   preview, smart_result, mwCalls, result>>

\* merge_existing_build is called: get_existing_build_worktree, then the
\* choice between smart merge and plain git merge.
MergeCall ==
    /\ pc[Self] = "idle"
    /\ result = "none"
    /\ \E nc \in BOOLEAN, usm \in BOOLEAN :
          /\ no_commit' = nc
          /\ use_smart_merge' = usm
          /\ IF ~worktree
             THEN /\ result' = "False"
                  /\ pc' = [pc EXCEPT ![Self] = "done"]
             ELSE /\ result' = result
                  /\ pc' = [pc EXCEPT ![Self] = IF usm THEN "enter_exists" ELSE "fallback"]
    /\ acquired' = [acquired EXCEPT ![Self] = FALSE]
    /\ UNCHANGED <<lockFile, now, exc, repo, worktree, tree, index, committed,
                   git_conflicts, todo, resolved_files, remaining_conflicts,
                   captured, refreshed, evolution, timeline, smart_result, mwCalls,
                   unlink_error, reclaimed, preview>>

\* Variant: conflict detection starts before the evolution data is refreshed.
InnerCapture_SkipRefresh ==
    /\ pc[Self] = "locked"
    /\ \E ok \in BOOLEAN : captured' = ok
    /\ pc' = [pc EXCEPT ![Self] = "check"]
    /\ reclaimed' = [reclaimed EXCEPT ![Self] = NoFile]
    /\ UNCHANGED <<lockFile, now, acquired, exc, no_commit, use_smart_merge, repo,
                   worktree, tree, index, committed, git_conflicts, todo,
                   resolved_files, remaining_conflicts, refreshed, evolution,
                   timeline, smart_result, mwCalls, result,
                   unlink_error, preview>>

\* timeline_tracker.capture_worktree_state, in its own try/except
InnerCapture ==
    /\ pc[Self] = "locked"
    /\ \E ok \in BOOLEAN : captured' = ok
    /\ pc' = [pc EXCEPT ![Self] = "refresh"]
    /\ reclaimed' = [reclaimed EXCEPT ![Self] = NoFile]
    /\ UNCHANGED <<lockFile, now, acquired, exc, no_commit, use_smart_merge, repo,
                   worktree, tree, index, committed, git_conflicts, todo,
                   resolved_files, remaining_conflicts, refreshed, evolution,
                   timeline, smart_result, mwCalls, result,
                   unlink_error, preview>>

\* MergeOrchestrator(...); evolution_tracker.refresh_from_git: an exception
\* reaches the outer `except Exception` and the function returns None
InnerRefresh ==
    /\ pc[Self] = "refresh"
    /\ \E ok \in BOOLEAN :
          IF ok
          THEN /\ refreshed' = TRUE
               /\ pc' = [pc EXCEPT ![Self] = "check"]
               /\ UNCHANGED <<exc, smart_result>>
          ELSE /\ smart_result' = NoneResult
               /\ LeaveWith("none")
               /\ UNCHANGED refreshed
    /\ UNCHANGED <<lockFile, now, acquired, no_commit, use_smart_merge, repo,
                   worktree, tree, index, committed, git_conflicts, todo,
                   resolved_files, remaining_conflicts, captured, evolution,
                   timeline, mwCalls, result,
                   unlink_error, reclaimed, preview>>

\* Variant: the check is made by a trial `git merge` in the main checkout.
CheckGitConflicts_TrialMerge ==
    /\ pc[Self] = "check"
    /\ \E hc \in BOOLEAN, cf \in SUBSET Files :
          /\ hc \/ cf = {}
          /\ git_conflicts' = [has_conflicts |-> hc, conflicting_files |-> cf]
          /\ todo' = IF hc THEN cf ELSE {}
          /\ tree' = [f \in Files |-> IF f \in cf THEN "merged" ELSE tree[f]]
          /\ pc' = [pc EXCEPT ![Self] = IF hc THEN "resolve" ELSE "preview"]
    /\ UNCHANGED <<lockFile, now, acquired, exc, unlink_error, reclaimed, no_commit,
                   use_smart_merge, repo, worktree, index, committed,
                   resolved_files, remaining_conflicts, captured, refreshed,
                   evolution, timeline, preview, smart_result, mwCalls, result>>

\* _check_git_conflicts: reads only; conflicting_files is filled only when
\* merge-tree exits non-zero
CheckGitConflicts ==
    /\ pc[Self] = "check"
    /\ \E hc \in BOOLEAN, cf \in SUBSET Files :
          /\ hc \/ cf = {}
          /\ git_conflicts' = [has_conflicts |-> hc, conflicting_files |-> cf]
          /\ todo' = IF hc THEN cf ELSE {}
          /\ pc' = [pc EXCEPT ![Self] = IF hc THEN "resolve" ELSE "preview"]
    /\ UNCHANGED <<lockFile, now, acquired, exc, no_commit, use_smart_merge, repo,
                   worktree, tree, index, committed, resolved_files,
                   remaining_conflicts, captured, refreshed, evolution, timeline,
                   smart_result, mwCalls, result,
                   unlink_error, reclaimed, preview>>

\* ------------------------------------------- _resolve_git_conflicts_with_ai
\* What the environment does to one loop iteration: everything works, the
\* merge engine gives up (None), a call raises before anything is written,
\* or `git add` exits non-zero (its return code is not looked at).
ResolveOutcomes == {"ok", "ai_none", "raise", "add_fails"}
CopyOutcomes == {"ok", "raise", "add_fails"}

Unchanged(f) == [tree |-> tree[f], index |-> index[f],
                 resolved |-> FALSE, remaining |-> FALSE]

\* target_path.write_text(content); subprocess.run(["git", "add", file_path])
WriteAndStage(f, content, out) ==
    [tree |-> content,
     index |-> IF out = "add_fails" THEN index[f] ELSE content,
     resolved |-> TRUE, remaining |-> FALSE]

\* if target_path.exists(): target_path.unlink(); git add
DeleteAndStage(f, out, counted) ==
    IF tree[f] # "absent"
    THEN [tree |-> "absent",
          index |-> IF out = "add_fails" THEN index[f] ELSE "absent",
          resolved |-> counted, remaining |-> FALSE]
    ELSE [Unchanged(f) EXCEPT !.resolved = counted]

\* Variant: a file whose processing raises is not reported.
ResolveOutcome_DropOnRaise(f, out) ==
    IF out = "raise"
    THEN Unchanged(f)
    ELSE IF MainContent(f) = "None" /\ WorktreeContent(f) = "None"
    THEN Unchanged(f)
    ELSE IF MainContent(f) = "None"
    THEN WriteAndStage(f, WorktreeContent(f), out)
    ELSE IF WorktreeContent(f) = "None"
    THEN DeleteAndStage(f, out, TRUE)
    ELSE IF out = "ai_none"
    THEN [Unchanged(f) EXCEPT !.remaining = TRUE]
    ELSE WriteAndStage(f, "merged", out)

\* Variant: the merge engine is asked about every path that exists somewhere.
ResolveOutcome_AlwaysMerge(f, out) ==
    IF out = "raise"
    THEN [Unchanged(f) EXCEPT !.remaining = TRUE]
    ELSE IF MainContent(f) = "None" /\ WorktreeContent(f) = "None"
    THEN Unchanged(f)
    ELSE IF out = "ai_none"
    THEN [Unchanged(f) EXCEPT !.remaining = TRUE]
    ELSE WriteAndStage(f, "merged", out)

\* One iteration of `for file_path in conflicting_files`
ResolveOutcome(f, out) ==
    LET from_main == MainContent(f)
        from_worktree == WorktreeContent(f)
    IN  IF out = "raise"
        THEN [Unchanged(f) EXCEPT !.remaining = TRUE]
        ELSE IF from_main = "None" /\ from_worktree = "None"
        THEN Unchanged(f)
        ELSE IF from_main = "None"
        THEN WriteAndStage(f, from_worktree, out)
        ELSE IF from_worktree = "None"
        THEN DeleteAndStage(f, out, TRUE)
        ELSE IF out = "ai_none"
        THEN [Unchanged(f) EXCEPT !.remaining = TRUE]
        ELSE WriteAndStage(f, "merged", out)

ResolveFile ==
    /\ pc[Self] = "resolve"
    /\ todo # {}
    /\ LET f == Min(todo) IN
       \E out \in ResolveOutcomes :
          LET r == ResolveOutcome(f, out) IN
          /\ tree' = [tree EXCEPT ![f] = r.tree]
          /\ index' = [index EXCEPT ![f] = r.index]
          /\ resolved_files' = IF r.resolved THEN Append(resolved_files, f)
                               ELSE resolved_files
          /\ remaining_conflicts' = IF r.remaining
                                    THEN remaining_conflicts \cup {RemainingConflict(f)}
                                    ELSE remaining_conflicts
          /\ todo' = todo \ {f}
    /\ UNCHANGED <<lockFile, now, pc, acquired, exc, no_commit, use_smart_merge,
                   repo, worktree, committed, git_conflicts, captured, refreshed,
                   evolution, timeline, smart_result, mwCalls, result,
                   unlink_error, reclaimed, preview>>

\* Variant: the early return on remaining conflicts is missing.
AfterResolveLoop_NoEarlyReturn ==
    /\ pc[Self] = "resolve"
    /\ todo = {}
    /\ todo' = NonConflicting(ChangedFiles, git_conflicts.conflicting_files)
    /\ pc' = [pc EXCEPT ![Self] = "copy"]
    /\ UNCHANGED <<lockFile, now, acquired, exc, unlink_error, reclaimed, no_commit,
                   use_smart_merge, repo, worktree, tree, index, committed,
                   git_conflicts, resolved_files, remaining_conflicts, captured,
                   refreshed, evolution, timeline, preview, smart_result,
                   mwCalls, result>>

\* After the loop: `if remaining_conflicts: return {...}`; otherwise the
\* changed files of the branch are listed for copying.
AfterResolveLoop ==
    /\ pc[Self] = "resolve"
    /\ todo = {}
    /\ IF remaining_conflicts # {}
       THEN /\ smart_result' = GitConflictResult(resolved_files, remaining_conflicts)
            /\ LeaveWith("none")
            /\ UNCHANGED todo
       ELSE /\ todo' = NonConflicting(ChangedFiles, git_conflicts.conflicting_files)
            /\ pc' = [pc EXCEPT ![Self] = "copy"]
            /\ UNCHANGED <<smart_result, exc>>
    /\ UNCHANGED <<lockFile, now, acquired, no_commit, use_smart_merge, repo,
                   worktree, tree, index, committed, git_conflicts, resolved_files,
                   remaining_conflicts, captured, refreshed, evolution, timeline,
                   mwCalls, result,
                   unlink_error, reclaimed, preview>>

\* One iteration of `for file_path, status in non_conflicting`
CopyOutcome(cf, out) ==
    IF out = "raise"
    THEN Unchanged(cf.path)
    ELSE IF cf.status = "D"
    THEN DeleteAndStage(cf.path, out, FALSE)
    ELSE IF WorktreeContent(cf.path) # "None"
    THEN WriteAndStage(cf.path, WorktreeContent(cf.path), out)
    ELSE Unchanged(cf.path)

CopyFile ==
    /\ pc[Self] = "copy"
    /\ todo # {}
    /\ LET cf == CHOOSE c \in todo : \A d \in todo : c.path <= d.path IN
       \E out \in CopyOutcomes :
          LET r == CopyOutcome(cf, out) IN
          /\ tree' = [tree EXCEPT ![cf.path] = r.tree]
          /\ index' = [index EXCEPT ![cf.path] = r.index]
          /\ resolved_files' = IF r.resolved THEN Append(resolved_files, cf.path)
                               ELSE resolved_files
          /\ todo' = todo \ {cf}
    /\ UNCHANGED <<lockFile, now, pc, acquired, exc, no_commit, use_smart_merge,
                   repo, worktree, committed, git_conflicts, remaining_conflicts,
                   captured, refreshed, evolution, timeline, smart_result,
                   mwCalls, result,
                   unlink_error, reclaimed, preview>>

\* `if resolved_files: _record_merge_completion(...)`
AfterCopyLoop ==
    /\ pc[Self] = "copy"
    /\ todo = {}
    /\ IF resolved_files # <<>>
       THEN /\ pc' = [pc EXCEPT ![Self] = "record"]
            /\ UNCHANGED <<smart_result, exc>>
       ELSE /\ smart_result' = ResolutionSuccess(resolved_files,
                                                 git_conflicts.conflicting_files)
            /\ LeaveWith("none")
    /\ UNCHANGED <<lockFile, now, acquired, no_commit, use_smart_merge, repo,
                   worktree, tree, index, committed, git_conflicts, todo,
                   resolved_files, remaining_conflicts, captured, refreshed,
                   evolution, timeline, mwCalls, result,
                   unlink_error, reclaimed, preview>>

\* Variant: an error of the Evolution Tracker leaves _record_merge_completion.
RecordCompletion_FatalOnError ==
    /\ pc[Self] = "record"
    /\ \E evo_ok \in BOOLEAN, tl_ok \in BOOLEAN :
          /\ evolution' = IF evo_ok THEN "completed" ELSE "failed"
          /\ timeline' = IF ~evo_ok THEN timeline
                         ELSE IF tl_ok THEN "merged" ELSE "failed"
          /\ smart_result' =
                IF evo_ok
                THEN ResolutionSuccess(resolved_files, git_conflicts.conflicting_files)
                ELSE NoneResult
    /\ LeaveWith("none")
    /\ UNCHANGED <<lockFile, now, acquired, no_commit, use_smart_merge, repo,
                   worktree, tree, index, committed, git_conflicts, todo,
                   resolved_files, remaining_conflicts, captured, refreshed,
                   mwCalls, result,
                   unlink_error, reclaimed, preview>>

\* _record_merge_completion: mark_task_completed, then on_task_merged, each in
\* its own try/except; then the success dict is returned.
RecordCompletion ==
    /\ pc[Self] = "record"
    /\ \E evo_ok \in BOOLEAN, tl_ok \in BOOLEAN :
          /\ evolution' = IF evo_ok THEN "completed" ELSE "failed"
          /\ timeline' = IF tl_ok THEN "merged" ELSE "failed"
    /\ smart_result' = ResolutionSuccess(resolved_files, git_conflicts.conflicting_files)
    /\ LeaveWith("none")
    /\ UNCHANGED <<lockFile, now, acquired, no_commit, use_smart_merge, repo,
                   worktree, tree, index, committed, git_conflicts, todo,
                   resolved_files, remaining_conflicts, captured, refreshed,
                   mwCalls, result,
                   unlink_error, reclaimed, preview>>

\* --------------------------------------- no git conflicts: preview_merge
\* preview_merge([spec_name]) reports per file no conflict, a conflict with
\* can_auto_merge, or one without; or it raises.
PreviewConflicts(pv) ==
    {[file |-> f, severity |-> "medium", can_auto_merge |-> (pv[f] = "auto")] :
        f \in {g \in Files : pv[g] # "none"}}

\* needs_human = [c for c in conflicts if not c.get("can_auto_merge")]
NeedsHuman(conflicts) == {c \in conflicts : ~c.can_auto_merge}

Preview ==
    /\ pc[Self] = "preview"
    /\ \E raises \in BOOLEAN, pv \in [Files -> {"none", "auto", "human"}] :
          IF raises
          THEN /\ smart_result' = NoneResult
               /\ UNCHANGED preview
          ELSE /\ preview' = PreviewConflicts(pv)
               /\ smart_result' =
                     IF NeedsHuman(PreviewConflicts(pv)) # {}
                     THEN SemanticConflictResult(NeedsHuman(PreviewConflicts(pv)))
                     ELSE PreviewSuccess(Cardinality(ChangedFiles))
    /\ LeaveWith("none")
    /\ UNCHANGED <<lockFile, now, acquired, no_commit, use_smart_merge, repo,
                   worktree, tree, index, committed, git_conflicts, todo,
                   resolved_files, remaining_conflicts, captured, refreshed,
                   evolution, timeline, mwCalls, result,
                   unlink_error, reclaimed>>

\* KeyboardInterrupt inside the `with` body: not an Exception, so
\* _try_smart_merge_inner does not catch it.
InnerPcs == {"locked", "refresh", "check", "resolve", "copy", "record", "preview"}

Interrupt ==
    /\ pc[Self] \in InnerPcs
    /\ LeaveWith("KeyboardInterrupt")
    /\ reclaimed' = [reclaimed EXCEPT ![Self] = NoFile]
    /\ UNCHANGED <<lockFile, now, acquired, no_commit, use_smart_merge, repo,
                   worktree, tree, index, committed, git_conflicts, todo,
                   resolved_files, remaining_conflicts, captured, refreshed,
                   evolution, timeline, smart_result, mwCalls, result,
                   unlink_error, preview>>

\* ------------------------------------------------- after _try_smart_merge
\* except MergeLockError: return {"success": False, "error": str(e), "conflicts": []}
SmartMergeLockError ==
    /\ pc[Self] = "lockerr"
    /\ smart_result' = LockHeldResult
    /\ pc' = [pc EXCEPT ![Self] = "dispatch"]
    /\ UNCHANGED <<lockFile, now, acquired, exc, no_commit, use_smart_merge, repo,
                   worktree, tree, index, committed, git_conflicts, todo,
                   resolved_files, remaining_conflicts, captured, refreshed,
                   evolution, timeline, mwCalls, result,
                   unlink_error, reclaimed, preview>>

\* Any other exception (from __enter__, or KeyboardInterrupt from the body)
\* leaves _try_smart_merge and merge_existing_build.
Propagate ==
    /\ \/ pc[Self] = "raised"
       \/ pc[Self] = "released" /\ exc[Self] = "KeyboardInterrupt"
    /\ result' = "raised"
    /\ pc' = [pc EXCEPT ![Self] = "done"]
    /\ UNCHANGED <<lockFile, now, acquired, exc, no_commit, use_smart_merge, repo,
                   worktree, tree, index, committed, git_conflicts, todo,
                   resolved_files, remaining_conflicts, captured, refreshed,
                   evolution, timeline, smart_result, mwCalls,
                   unlink_error, reclaimed, preview>>

\* Variant: the `return False` of the git-conflict branch is missing.
DispatchTarget_NoReturnFalse(sr) ==
    IF sr.kind = "None" THEN "fallback"
    ELSE IF sr.success
    THEN IF sr.ai_assisted > 0 THEN "cleanup" ELSE "merge"
    ELSE "fallback"

\* Variant: semantic conflicts end the merge instead of falling through.
DispatchTarget_StopOnConflicts(sr) ==
    IF sr.kind = "None" THEN "fallback"
    ELSE IF sr.success
    THEN IF sr.ai_assisted > 0 THEN "cleanup" ELSE "merge"
    ELSE IF sr.conflicts # {} THEN "return_false"
    ELSE "fallback"

\* Variant: the worktree is cleaned up whenever git conflicts were handled,
\* resolved or not.
DispatchTarget_CleanupOnConflicts(sr) ==
    IF sr.kind = "None" THEN "fallback"
    ELSE IF sr.success
    THEN IF sr.ai_assisted > 0 THEN "cleanup" ELSE "merge"
    ELSE IF sr.git_conflicts THEN "cleanup"
    ELSE "fallback"

\* The if / elif chain of merge_existing_build on smart_result:
\*   "cleanup"      AI resolved the git conflicts: remove the worktree, return True
\*   "merge"        success without ai_assisted: merge_worktree
\*   "return_false" unresolved git conflicts: return False
\*   "fallback"     everything else falls through to the standard git merge
DispatchTarget(sr) ==
    IF sr.kind = "None" THEN "fallback"
    ELSE IF sr.success
    THEN IF sr.ai_assisted > 0 THEN "cleanup" ELSE "merge"
    ELSE IF sr.git_conflicts
    THEN IF sr.conflicts # {} THEN "return_false" ELSE "fallback"
    ELSE "fallback"

Dispatch ==
    /\ \/ pc[Self] = "dispatch"
       \/ pc[Self] = "released" /\ exc[Self] = "none"
    /\ LET target == DispatchTarget(smart_result) IN
       CASE target = "cleanup" ->
              \* manager.remove_worktree(spec_name, delete_branch=True), best effort
              /\ \E removed \in BOOLEAN : worktree' = (worktree /\ ~removed)
              /\ result' = "True"
              /\ pc' = [pc EXCEPT ![Self] = "done"]
         [] target = "return_false" ->
              /\ result' = "False"
              /\ pc' = [pc EXCEPT ![Self] = "done"]
              /\ UNCHANGED worktree
         [] OTHER ->
              /\ pc' = [pc EXCEPT ![Self] = IF target = "merge" THEN "merge_worktree"
                                            ELSE "fallback"]
              /\ UNCHANGED <<worktree, result>>
    /\ UNCHANGED <<lockFile, now, acquired, exc, no_commit, use_smart_merge, repo,
                   tree, index, committed, git_conflicts, todo, resolved_files,
                   remaining_conflicts, captured, refreshed, evolution, timeline,
                   smart_result, mwCalls,
                   unlink_error, reclaimed, preview>>

\* WorktreeManager.merge_worktree(spec, delete_after=True, no_commit): the VCS
\* merge of the spec branch into the main checkout. On success every file the
\* branch changed has the branch's state, staged, committed unless no_commit,
\* and the worktree and branch are removed.
GitMergedContent(f) ==
    CASE repo[f].status = "-" -> tree[f]
      [] repo[f].status = "D" -> "absent"
      [] OTHER -> "spec"

merge_worktree(ok) ==
    /\ mwCalls' = mwCalls + 1
    /\ IF ok
       THEN /\ tree' = [f \in Files |-> GitMergedContent(f)]
            /\ index' = [f \in Files |-> GitMergedContent(f)]
            /\ committed' = (committed \/ ~no_commit)
            /\ worktree' = FALSE
       ELSE UNCHANGED <<tree, index, committed, worktree>>

\* success_result = manager.merge_worktree(...) in the success branch;
\* a False result falls through to the standard git merge
MergeWorktreeFirst ==
    /\ pc[Self] = "merge_worktree"
    /\ \E ok \in BOOLEAN :
          /\ merge_worktree(ok)
          /\ result' = IF ok THEN "True" ELSE result
          /\ pc' = [pc EXCEPT ![Self] = IF ok THEN "done" ELSE "fallback"]
    /\ UNCHANGED <<lockFile, now, acquired, exc, no_commit, use_smart_merge, repo,
                   git_conflicts, todo, resolved_files, remaining_conflicts,
                   captured, refreshed, evolution, timeline, smart_result,
                   unlink_error, reclaimed, preview>>

\* "Fall back to standard git merge"
MergeWorktreeFallback ==
    /\ pc[Self] = "fallback"
    /\ \E ok \in BOOLEAN :
          /\ merge_worktree(ok)
          /\ result' = IF ok THEN "True" ELSE "False"
    /\ pc' = [pc EXCEPT ![Self] = "done"]
    /\ UNCHANGED <<lockFile, now, acquired, exc, no_commit, use_smart_merge, repo,
                   git_conflicts, todo, resolved_files, remaining_conflicts,
                   captured, refreshed, evolution, timeline, smart_result,
                   unlink_error, reclaimed, preview>>

\* The main checkout before the merge: the base branch, clean.
InitialContent(f) == IF repo[f].inMain THEN "main" ELSE "absent"

Init ==
    /\ lockFile \in InitLockFiles
    /\ now = StartTime
    /\ pc = [p \in Procs |-> "idle"]
    /\ acquired = [p \in Procs |-> FALSE]
    /\ exc = [p \in Procs |-> "none"]
    /\ unlink_error = [p \in Procs |-> FALSE]
    /\ reclaimed = [p \in Procs |-> NoFile]
    /\ repo \in [Files -> FileCases]
    /\ worktree \in BOOLEAN
    /\ tree = [f \in Files |-> InitialContent(f)]
    /\ index = [f \in Files |-> InitialContent(f)]
    /\ InitMergeIdle
    /\ InitEngineIdle /\ InitWorkspaceIdle /\ InitDiscardIdle /\ InitHelpersIdle

Next ==
    \/ MergeCall /\ UNCHANGED functionVars
    \/ EnterExists(Self) /\ UNCHANGED <<mergeVars, functionVars>>
    \/ EnterRead(Self) /\ UNCHANGED <<mergeVars, functionVars>>
    \/ EnterUnlink(Self) /\ UNCHANGED <<mergeVars, functionVars>>
    \/ EnterWrite(Self) /\ UNCHANGED <<mergeVars, functionVars>>
    \/ InnerCapture /\ UNCHANGED functionVars
    \/ InnerRefresh /\ UNCHANGED functionVars
    \/ CheckGitConflicts /\ UNCHANGED functionVars
    \/ ResolveFile /\ UNCHANGED functionVars
    \/ AfterResolveLoop /\ UNCHANGED functionVars
    \/ CopyFile /\ UNCHANGED functionVars
    \/ AfterCopyLoop /\ UNCHANGED functionVars
    \/ RecordCompletion /\ UNCHANGED functionVars
    \/ Preview /\ UNCHANGED functionVars
    \/ Interrupt /\ UNCHANGED functionVars
    \/ ExitCheck(Self) /\ UNCHANGED <<mergeVars, functionVars>>
    \/ ExitUnlink(Self) /\ UNCHANGED <<mergeVars, functionVars>>
    \/ SmartMergeLockError /\ UNCHANGED functionVars
    \/ Propagate /\ UNCHANGED functionVars
    \/ Dispatch /\ UNCHANGED functionVars
    \/ MergeWorktreeFirst /\ UNCHANGED functionVars
    \/ MergeWorktreeFallback /\ UNCHANGED functionVars

Spec == Init /\ [][Next]_vars

\* The lock directory and the merge at rest, for the specifications of the
\* functions checked on their own.
InitOrchestratorIdle ==
    /\ lockFile = NoFile
    /\ now = StartTime
    /\ pc = [p \in Procs |-> "idle"]
    /\ acquired = [p \in Procs |-> FALSE]
    /\ exc = [p \in Procs |-> "none"]
    /\ unlink_error = [p \in Procs |-> FALSE]
    /\ reclaimed = [p \in Procs |-> NoFile]
    /\ repo = [f \in Files |-> [inMain |-> TRUE, inSpec |-> TRUE, status |-> "-"]]
    /\ worktree = TRUE
    /\ tree = [f \in Files |-> "main"]
    /\ index = [f \in Files |-> "main"]
    /\ InitMergeIdle

\* ======================================================================
\* _merge_file_with_ai: one call (SpecEngine)
\* ======================================================================
NumTexts == 3
MAX_FILE_LINES_FOR_AI == 5000

BINARY_EXTENSIONS ==
    {".png", ".jpg", ".jpeg", ".gif", ".ico", ".webp", ".bmp", ".svg",
     ".pdf", ".doc", ".docx", ".xls", ".xlsx", ".ppt", ".pptx",
     ".zip", ".tar", ".gz", ".rar", ".7z",
     ".exe", ".dll", ".so", ".dylib", ".bin",
     ".mp3", ".mp4", ".wav", ".avi", ".mov", ".mkv",
     ".woff", ".woff2", ".ttf", ".otf", ".eot",
     ".pyc", ".pyo", ".class", ".o", ".obj"}

\* Path(file_path).suffix of the paths tried; "" : a path without suffix
Suffixes == {".png", ".PNG", ".so", ".py", ""}
\* str.lower() on those suffixes
Lower(suffix) == IF suffix = ".PNG" THEN ".png" ELSE suffix

\* Path(file_path).suffix.lower() in BINARY_EXTENSIONS
_is_binary_file(path) == Lower(path) \in BINARY_EXTENSIONS

\* content.count('\n') if content else 0
count_lines(content) == IF content = EmptyText THEN 0 ELSE content.nl

\* Variant: only the main side is measured.
max_lines_MainOnly(main_lines, worktree_lines) == main_lines

\* max_lines = max(main_lines, worktree_lines)
max_lines(main_lines, worktree_lines) ==
    IF main_lines >= worktree_lines THEN main_lines ELSE worktree_lines

\* the contents a side can have: "", or one of NumTexts texts with no '\n',
\* with as many as the limit, or with one more
LineCounts == {0, MAX_FILE_LINES_FOR_AI, MAX_FILE_LINES_FOR_AI + 1}
Contents == {EmptyText} \cup {Text(i, n) : i \in 1..NumTexts, n \in LineCounts}

\* truth value of an Optional[str]
Truthy(content) == content.kind = "text" /\ content # EmptyText

\* Variant: when both sides changed the worktree side is taken.
_heuristic_merge_PreferWorktree(main, wt, base) ==
    IF base = NoneValue THEN wt
    ELSE IF main = base THEN wt
    ELSE IF wt = base THEN main
    ELSE wt

\* _heuristic_merge: difflib.unified_diff of the splitlines(keepends=True)
\* lists is empty exactly when the two strings are equal
_heuristic_merge(main, wt, base) ==
    IF base = NoneValue THEN wt
    ELSE IF main = base THEN wt          \* not main_diff
    ELSE IF wt = base THEN main          \* not worktree_diff
    ELSE NoneValue

\* return of _merge_file_with_ai
Return(value) ==
    /\ returned' = value
    /\ epc' = "done"

\* Binary detection, file size limit, and the resolver without ai_call_fn
EngineGuards ==
    /\ epc = "call"
    /\ IF _is_binary_file(file_path)
       THEN Return(NoneValue)
       ELSE IF max_lines(count_lines(main_content), count_lines(worktree_content))
                  > MAX_FILE_LINES_FOR_AI
       THEN Return(NoneValue)
       ELSE IF ~ai_call_fn
       THEN Return(_heuristic_merge(main_content, worktree_content, base_content))
       ELSE /\ epc' = "region"
            /\ UNCHANGED returned
    /\ UNCHANGED <<file_path, main_content, worktree_content, base_content,
                   ai_call_fn, project_dir, ai_calls, region_check, full_check,
                   retry_check>>

\* What happens to the conflict-region-only attempt: git merge-file gives no
\* conflict markers; a call inside the try raises; the answer is empty or no
\* resolution can be extracted; the reassembled file fails or passes
\* _validate_merged_syntax.
RegionOutcomes == {"no_markers", "raise", "empty", "invalid", "valid"}

\* Variant: the reassembled file is returned without syntax validation.
RegionMerge_NoValidation ==
    /\ epc = "region"
    /\ IF project_dir /\ Truthy(base_content)
       THEN \E out \in RegionOutcomes :
               /\ region_check' = out
               /\ ai_calls' = IF out = "no_markers" THEN ai_calls
                              ELSE Append(ai_calls, "conflict_only")
               /\ IF out \in {"valid", "invalid"}
                  THEN Return(AIText("merged_regions"))
                  ELSE /\ epc' = "full"
                       /\ UNCHANGED returned
       ELSE /\ epc' = "full"
            /\ UNCHANGED <<region_check, ai_calls, returned>>
    /\ UNCHANGED <<file_path, main_content, worktree_content, base_content,
                   ai_call_fn, project_dir, full_check, retry_check>>

\* `if project_dir and base_content:` ... conflict-region-only merge
RegionMerge ==
    /\ epc = "region"
    /\ IF project_dir /\ Truthy(base_content)
       THEN \E out \in RegionOutcomes :
               /\ region_check' = out
               /\ ai_calls' = IF out = "no_markers" THEN ai_calls
                              ELSE Append(ai_calls, "conflict_only")
               /\ IF out = "valid"
                  THEN Return(AIText("merged_regions"))
                  ELSE /\ epc' = "full"
                       /\ UNCHANGED returned
       ELSE /\ epc' = "full"
            /\ UNCHANGED <<region_check, ai_calls, returned>>
    /\ UNCHANGED <<file_path, main_content, worktree_content, base_content,
                   ai_call_fn, project_dir, full_check, retry_check>>

\* What happens to an AI answer of the full-file strategy: a call inside the
\* try raises; no code can be extracted; code is extracted and is or is not
\* valid syntax.
AnswerOutcomes == {"raise", "no_code", "invalid", "valid"}

\* Full-file merge: the AI call, extraction, validation
FullMerge ==
    /\ epc = "full"
    /\ ai_calls' = Append(ai_calls, "full")
    /\ \E out \in AnswerOutcomes :
          CASE out = "raise" ->
                 /\ full_check' = "raise"
                 /\ Return(_heuristic_merge(main_content, worktree_content, base_content))
            [] out = "no_code" ->
                 /\ full_check' = "no_code"
                 /\ Return(NoneValue)
            [] OTHER ->
                 IF ~project_dir
                 THEN /\ full_check' = "unchecked"
                      /\ Return(AIText("merged_full"))
                 ELSE /\ full_check' = out
                      /\ IF out = "valid"
                         THEN Return(AIText("merged_full"))
                         ELSE /\ epc' = "retry"
                              /\ UNCHANGED returned
    /\ UNCHANGED <<file_path, main_content, worktree_content, base_content,
                   ai_call_fn, project_dir, region_check, retry_check>>

\* Variant: an invalid retry is retried again.
RetryMerge_Again ==
    /\ epc = "retry"
    /\ ai_calls' = Append(ai_calls, "fix")
    /\ \E out \in AnswerOutcomes :
          /\ retry_check' = out
          /\ CASE out = "raise" ->
                    Return(_heuristic_merge(main_content, worktree_content, base_content))
               [] out = "valid" -> Return(AIText("merged_retry"))
               [] out = "invalid" /\ Len(ai_calls) < 3 -> UNCHANGED <<epc, returned>>
               [] OTHER -> Return(NoneValue)
    /\ UNCHANGED <<file_path, main_content, worktree_content, base_content,
                   ai_call_fn, project_dir, region_check, full_check>>

\* "Try once more with explicit syntax fix request"
RetryMerge ==
    /\ epc = "retry"
    /\ ai_calls' = Append(ai_calls, "fix")
    /\ \E out \in AnswerOutcomes :
          /\ retry_check' = out
          /\ CASE out = "raise" ->
                    Return(_heuristic_merge(main_content, worktree_content, base_content))
               [] out = "valid" -> Return(AIText("merged_retry"))
               [] OTHER -> Return(NoneValue)
    /\ UNCHANGED <<file_path, main_content, worktree_content, base_content,
                   ai_call_fn, project_dir, region_check, full_check>>

InitEngine ==
    /\ InitOrchestratorIdle /\ InitWorkspaceIdle /\ InitDiscardIdle /\ InitHelpersIdle
    /\ file_path \in Suffixes
    /\ main_content \in Contents
    /\ worktree_content \in Contents
    /\ base_content \in Contents \cup {NoneValue}
    /\ ai_call_fn \in BOOLEAN
    /\ project_dir \in BOOLEAN
    /\ epc = "call"
    /\ ai_calls = <<>>
    /\ region_check = "none" /\ full_check = "none" /\ retry_check = "none"
    /\ returned = Pending

NextEngine ==
    \/ EngineGuards /\ UNCHANGED <<lockVars, mergeVars, workspaceVars, discardVars, helperVars>>
    \/ RegionMerge /\ UNCHANGED <<lockVars, mergeVars, workspaceVars, discardVars, helperVars>>
    \/ FullMerge /\ UNCHANGED <<lockVars, mergeVars, workspaceVars, discardVars, helperVars>>
    \/ RetryMerge /\ UNCHANGED <<lockVars, mergeVars, workspaceVars, discardVars, helperVars>>

SpecEngine == InitEngine /\ [][NextEngine]_vars

\* ======================================================================
\* choose_workspace: one call (SpecWorkspace)
\* ======================================================================
\* stdout of `git status --porcelain`: nothing, a modified file, an untracked one
StatusOutputs == {"", " M app.py\n", "?? notes.txt\n"}
\* str.strip() on those outputs
Strip(text) ==
    CASE text = " M app.py\n" -> "M app.py"
      [] text = "?? notes.txt\n" -> "?? notes.txt"
      [] OTHER -> text

\* bool(result.stdout.strip())
has_uncommitted_changes(stdout) == Strip(stdout) # ""

\* Variant: the check for unsaved work is missing.
WorkspaceMode_NoUnsavedCheck(fi, fd, ac, stdout, reply, choice) ==
    IF fi THEN "ISOLATED"
    ELSE IF fd THEN "DIRECT"
    ELSE IF ac THEN "ISOLATED"
    ELSE IF choice = "None" THEN "exit"
    ELSE IF choice = "direct" THEN "DIRECT"
    ELSE "ISOLATED"

\* The body of choose_workspace: the WorkspaceMode returned, or "exit" when
\* the user cancels (sys.exit(0))
WorkspaceMode(fi, fd, ac, stdout, reply, choice) ==
    IF fi THEN "ISOLATED"
    ELSE IF fd THEN "DIRECT"
    ELSE IF ac THEN "ISOLATED"
    ELSE IF has_uncommitted_changes(stdout)
    THEN IF reply = "KeyboardInterrupt" THEN "exit" ELSE "ISOLATED"
    ELSE IF choice = "None" THEN "exit"
    ELSE IF choice = "direct" THEN "DIRECT"
    ELSE "ISOLATED"

choose_workspace ==
    /\ mode = "call"
    /\ mode' = WorkspaceMode(force_isolated, force_direct, auto_continue,
                             status_output, prompt_reply, menu_choice)
    /\ UNCHANGED <<force_isolated, force_direct, auto_continue, status_output,
                   prompt_reply, menu_choice>>

InitWorkspace ==
    /\ InitOrchestratorIdle /\ InitEngineIdle /\ InitDiscardIdle /\ InitHelpersIdle
    /\ force_isolated \in BOOLEAN
    /\ force_direct \in BOOLEAN
    /\ auto_continue \in BOOLEAN
    /\ status_output \in StatusOutputs
    /\ prompt_reply \in {"enter", "KeyboardInterrupt"}
    /\ menu_choice \in {"isolated", "direct", "None"}
    /\ mode = "call"

NextWorkspace ==
    choose_workspace /\ UNCHANGED <<lockVars, mergeVars, engineVars, discardVars, helperVars>>

SpecWorkspace == InitWorkspace /\ [][NextWorkspace]_vars

\* ======================================================================
\* discard_existing_build and finalize_workspace: one call each (SpecDiscard)
\* ======================================================================
\* The user pressing Ctrl-C / closing stdin at the prompt: input() raises
CtrlC == "KeyboardInterrupt"
EndOfInput == "EOFError"
\* Lines the user may type at "Type 'delete' to confirm: "
TypedLines == {"delete", "DELETE", "  delete ", "Delete\t", "delet", "deleted",
               "d e l e t e", "yes", "y", "", " "}

\* str.strip() on those lines
StripLine(text) ==
    CASE text = "  delete " -> "delete"
      [] text = "Delete\t" -> "Delete"
      [] text = " " -> ""
      [] OTHER -> text

\* str.lower() on the stripped lines
LowerLine(text) ==
    CASE text = "DELETE" -> "delete"
      [] text = "Delete" -> "delete"
      [] OTHER -> text

\* Variant: every non-empty answer confirms.
Confirms_AnyAnswer(text) == text # ""

\* not (confirmation != "delete")
Confirms(text) == text = "delete"

\* worktree_path = get_existing_build_worktree(...); if not worktree_path: return False
DiscardLookup ==
    /\ dpc = "call"
    /\ IF existing_build
       THEN dpc' = "summary" /\ UNCHANGED discarded
       ELSE dpc' = "done" /\ discarded' = "False"
    /\ UNCHANGED <<existing_build, typed, confirmation, manager, workspace_choice>>

\* manager = WorktreeManager(project_dir); show_build_summary(manager, spec_name):
\* git queries outside any try, an error of theirs leaves the function
DiscardSummary ==
    /\ dpc = "summary"
    /\ \E ok \in BOOLEAN : dpc' = IF ok THEN "prompt" ELSE "raised"
    /\ UNCHANGED <<existing_build, typed, confirmation, discarded, manager, workspace_choice>>

\* try: confirmation = input(...).strip().lower()
\* except KeyboardInterrupt: return False
\* if confirmation != "delete": return False
DiscardPrompt ==
    /\ dpc = "prompt"
    /\ IF typed = CtrlC
       THEN /\ dpc' = "done" /\ discarded' = "False"
            /\ UNCHANGED confirmation
       ELSE IF typed = EndOfInput
       THEN /\ dpc' = "raised"
            /\ UNCHANGED <<confirmation, discarded>>
       ELSE /\ confirmation' = LowerLine(StripLine(typed))
            /\ IF Confirms(confirmation')
               THEN dpc' = "remove" /\ UNCHANGED discarded
               ELSE dpc' = "done" /\ discarded' = "False"
    /\ UNCHANGED <<existing_build, typed, manager, workspace_choice>>

\* WorktreeManager.remove_worktree(spec, delete_branch=True): best-effort removal
remove_worktree(ok) == existing_build' = IF ok THEN FALSE ELSE existing_build

\* manager.remove_worktree(spec_name, delete_branch=True); return True
DiscardRemove ==
    /\ dpc = "remove"
    /\ \E ok \in BOOLEAN : remove_worktree(ok)
    /\ dpc' = "done" /\ discarded' = "True"
    /\ UNCHANGED <<typed, confirmation, manager, workspace_choice>>

\* The body of finalize_workspace: the WorkspaceChoice returned; the menu has
\* the keys test / merge / review / later and no entry that discards
WorkspaceChoice(has_manager, ac, key) ==
    IF ~has_manager THEN "MERGE"
    ELSE IF ac THEN "LATER"
    ELSE IF key = "test" THEN "TEST"
    ELSE IF key = "merge" THEN "MERGE"
    ELSE IF key = "review" THEN "REVIEW"
    ELSE "LATER"

finalize_workspace ==
    /\ workspace_choice = "call"
    /\ workspace_choice' = WorkspaceChoice(manager, auto_continue, menu_choice)
    /\ UNCHANGED <<existing_build, typed, confirmation, dpc, discarded, manager>>

InitDiscard ==
    /\ InitOrchestratorIdle /\ InitEngineIdle /\ InitHelpersIdle
    /\ force_isolated = FALSE /\ force_direct = FALSE
    /\ status_output = "" /\ prompt_reply = "enter" /\ mode = "idle"
    /\ auto_continue \in BOOLEAN
    /\ menu_choice \in {"test", "merge", "review", "later"}
    /\ existing_build \in BOOLEAN
    /\ typed \in TypedLines \cup {CtrlC, EndOfInput}
    /\ confirmation = "unset"
    /\ dpc = "call" /\ discarded = "unset"
    /\ manager \in BOOLEAN
    /\ workspace_choice = "call"

NextDiscard ==
    \/ DiscardLookup /\ UNCHANGED <<lockVars, mergeVars, engineVars, workspaceVars, helperVars>>
    \/ DiscardSummary /\ UNCHANGED <<lockVars, mergeVars, engineVars, workspaceVars, helperVars>>
    \/ DiscardPrompt /\ UNCHANGED <<lockVars, mergeVars, engineVars, workspaceVars, helperVars>>
    \/ DiscardRemove /\ UNCHANGED <<lockVars, mergeVars, engineVars, workspaceVars, helperVars>>
    \/ finalize_workspace /\ UNCHANGED <<lockVars, mergeVars, engineVars, workspaceVars, helperVars>>

SpecDiscard == InitDiscard /\ [][NextDiscard]_vars

\* ======================================================================
\* _validate_merged_syntax: one call (SpecValidate)
\* ======================================================================
\* Suffixes of the merged file's path
ValidatedSuffixes == {".ts", ".TSX", ".js", ".jsx", ".py", ".json", ".JSON",
                      ".md", ".MJS", ""}
\* str.lower() on those suffixes
LowerSuffix(suffix) ==
    CASE suffix = ".TSX" -> ".tsx"
      [] suffix = ".JSON" -> ".json"
      [] suffix = ".MJS" -> ".mjs"
      [] OTHER -> suffix

\* How subprocess.run(['npx', 'tsc', ...], timeout=30) ends: npx is missing,
\* the run times out, another error is raised, exit 0, a non-zero exit with
\* only npm warnings on stderr, a non-zero exit with error lines
TscOutcomes == {"FileNotFoundError", "TimeoutExpired", "OSError",
                "rc0", "warnings", "errors"}
\* How subprocess.run(['npx', 'eslint', ...], timeout=30) ends: the three
\* exceptions, exit 0, exit 1 with or without 'Parsing error', exit 2 or more
EslintOutcomes == {"FileNotFoundError", "TimeoutExpired", "OSError",
                   "rc0", "rc1_parsing", "rc1_lint", "rc2"}
CheckerExceptions == {"FileNotFoundError", "TimeoutExpired", "OSError"}

Answer(valid) ==
    /\ is_valid' = IF valid THEN "True" ELSE "False"
    /\ vpc' = "done"

\* ext = P(file_path).suffix.lower() and the choice of the validator; for
\* JS/TS the content is first written to a temporary file
ValidateStart ==
    /\ vpc = "call"
    /\ ext' = LowerSuffix(vpath)
    /\ IF ext' \in {".ts", ".tsx", ".js", ".jsx"}
       THEN \E tmp_ok \in BOOLEAN :
               IF tmp_ok
               THEN /\ vpc' = IF ext' \in {".ts", ".tsx"} THEN "tsc" ELSE "eslint"
                    /\ UNCHANGED is_valid
               ELSE Answer(TRUE)
       ELSE IF ext' = ".py" THEN Answer(compiles)
       ELSE IF ext' = ".json" THEN Answer(decodes)
       ELSE Answer(TRUE)
    /\ UNCHANGED <<vpath, decodes, compiles, tsc, eslint>>

\* npx tsc --noEmit --skipLibCheck
TscRun ==
    /\ vpc = "tsc"
    /\ \E out \in TscOutcomes :
          /\ tsc' = out
          /\ IF out \in CheckerExceptions THEN Answer(TRUE)
             ELSE IF out = "errors" THEN Answer(FALSE)
             ELSE vpc' = "eslint" /\ UNCHANGED is_valid
    /\ UNCHANGED <<vpath, ext, decodes, compiles, eslint>>

\* Variant: a checker that cannot be run rejects the file.
EslintRun_FailClosed ==
    /\ vpc = "eslint"
    /\ \E out \in EslintOutcomes :
          /\ eslint' = out
          /\ Answer(out \in {"rc0", "rc1_lint"})
    /\ UNCHANGED <<vpath, ext, decodes, compiles, tsc>>

\* npx eslint --no-eslintrc --parser @typescript-eslint/parser
EslintRun ==
    /\ vpc = "eslint"
    /\ \E out \in EslintOutcomes :
          /\ eslint' = out
          /\ Answer(out # "rc1_parsing")
    /\ UNCHANGED <<vpath, ext, decodes, compiles, tsc>>

InitValidate ==
    /\ InitOrchestratorIdle /\ InitEngineIdle /\ InitWorkspaceIdle /\ InitDiscardIdle
    /\ vpath \in ValidatedSuffixes
    /\ ext = ""
    /\ decodes \in BOOLEAN /\ compiles \in BOOLEAN
    /\ tsc = "none" /\ eslint = "none"
    /\ vpc = "call" /\ is_valid = "unset"
    /\ InitSetupIdle /\ InitFixIdle

NextValidate ==
    \/ ValidateStart /\ UNCHANGED <<lockVars, mergeVars, engineVars, workspaceVars, discardVars, setupVars, fixVars>>
    \/ TscRun /\ UNCHANGED <<lockVars, mergeVars, engineVars, workspaceVars, discardVars, setupVars, fixVars>>
    \/ EslintRun /\ UNCHANGED <<lockVars, mergeVars, engineVars, workspaceVars, discardVars, setupVars, fixVars>>

SpecValidate == InitValidate /\ [][NextValidate]_vars

\* ======================================================================
\* setup_workspace called repeatedly in one process (SpecSetup)
\* ======================================================================
MaxSetups == 3

\* What the process finds when it looks at the repository's hook: no .git, a
\* .git file that is no gitdir pointer, a readable hooks directory in which
\* install_hook succeeds or raises, or an error while looking
HookOutcomes == {"no_git", "bad_gitfile", "present", "installed", "install_raises",
                 "read_raises"}

\* setup_workspace is called; DIRECT returns at once
SetupCall ==
    /\ spc = "idle"
    /\ setups < MaxSetups
    /\ setups' = setups + 1
    /\ hook_outcome' = "none"
    /\ \E m \in {"DIRECT", "ISOLATED"} :
          IF m = "DIRECT"
          THEN spc' = "idle" /\ setup_result' = "ok"
          ELSE spc' = "hook" /\ setup_result' = "none"
    /\ UNCHANGED <<_git_hook_check_done, hook, hook_checks, install_calls>>

\* Variant: the flag is set only once the hook is known to be in place.
EnsureHook_FlagOnSuccess ==
    /\ spc = "hook"
    /\ spc' = "worktree"
    /\ IF _git_hook_check_done
       THEN /\ hook_outcome' = "skipped"
            /\ UNCHANGED <<_git_hook_check_done, hook, hook_checks, install_calls>>
       ELSE /\ hook_checks' = hook_checks + 1
            /\ \E out \in HookOutcomes :
                  /\ out = "present" => hook = "timeline"
                  /\ out \in {"installed", "install_raises"} => hook # "timeline"
                  /\ hook_outcome' = out
                  /\ _git_hook_check_done' = (out \in {"present", "installed"})
                  /\ hook' = IF out = "installed" THEN "timeline" ELSE hook
                  /\ install_calls' = IF out \in {"installed", "install_raises"}
                                      THEN install_calls + 1 ELSE install_calls
    /\ UNCHANGED <<setups, setup_result>>

\* _ensure_timeline_hook_installed: the flag is tested and set before the
\* try; everything after it is inside `try ... except Exception`
EnsureHook ==
    /\ spc = "hook"
    /\ spc' = "worktree"
    /\ IF _git_hook_check_done
       THEN /\ hook_outcome' = "skipped"
            /\ UNCHANGED <<_git_hook_check_done, hook, hook_checks, install_calls>>
       ELSE /\ _git_hook_check_done' = TRUE
            /\ hook_checks' = hook_checks + 1
            /\ \E out \in HookOutcomes :
                  /\ out = "present" => hook = "timeline"
                  /\ out \in {"installed", "install_raises"} => hook # "timeline"
                  /\ hook_outcome' = out
                  /\ hook' = IF out = "installed" THEN "timeline" ELSE hook
                  /\ install_calls' = IF out \in {"installed", "install_raises"}
                                      THEN install_calls + 1 ELSE install_calls
    /\ UNCHANGED <<setups, setup_result>>

\* manager.setup(), get_or_create_worktree, copy_spec_to_worktree (outside any
\* try) and _initialize_timeline_tracking (which catches its own errors)
SetupWorktree ==
    /\ spc = "worktree"
    /\ spc' = "idle"
    /\ \E worktree_ok \in BOOLEAN :
          setup_result' = IF worktree_ok THEN "ok" ELSE "worktree_error"
    /\ UNCHANGED <<_git_hook_check_done, hook, setups, hook_checks, install_calls,
                   hook_outcome>>

InitSetup ==
    /\ InitOrchestratorIdle /\ InitEngineIdle /\ InitWorkspaceIdle /\ InitDiscardIdle
    /\ InitValidateIdle /\ InitFixIdle
    /\ _git_hook_check_done = FALSE
    /\ hook \in {"none", "other", "timeline"}
    /\ setups = 0 /\ spc = "idle"
    /\ hook_checks = 0 /\ install_calls = 0
    /\ hook_outcome = "none" /\ setup_result = "none"

NextSetup ==
    \/ SetupCall /\ UNCHANGED <<lockVars, mergeVars, engineVars, workspaceVars, discardVars, validateVars, fixVars>>
    \/ EnsureHook /\ UNCHANGED <<lockVars, mergeVars, engineVars, workspaceVars, discardVars, validateVars, fixVars>>
    \/ SetupWorktree /\ UNCHANGED <<lockVars, mergeVars, engineVars, workspaceVars, discardVars, validateVars, fixVars>>

SpecSetup == InitSetup /\ [][NextSetup]_vars

\* ======================================================================
\* _normalize_status (SpecStatus)
\* ======================================================================
MaxPad == 1
MaxApplications == 2

\* Python values: a str is the sequence of its pieces, each piece a run of
\* whitespace or a word written in lower case or not
PyString(text) == [type |-> "str", text |-> text, num |-> 0]
PyInt(n) == [type |-> "int", text |-> <<>>, num |-> n]
PyBool(n) == [type |-> "bool", text |-> <<>>, num |-> n]
PyNone == [type |-> "NoneType", text |-> <<>>, num |-> 0]
PyList == [type |-> "list", text |-> <<>>, num |-> 0]
Space == [word |-> " ", upper |-> FALSE]
Word(w) == <<[word |-> w, upper |-> FALSE]>>
Cased(w) == {<<[word |-> w, upper |-> u]>> : u \in BOOLEAN}
Spaces(n) == [i \in 1..n |-> Space]

\* str.strip()
RECURSIVE lstrip(_)
lstrip(text) == IF text # <<>> /\ Head(text) = Space THEN lstrip(Tail(text)) ELSE text
RECURSIVE rstrip(_)
rstrip(text) ==
    IF text # <<>> /\ text[Len(text)] = Space
    THEN rstrip(SubSeq(text, 1, Len(text) - 1))
    ELSE text
strip(text) == rstrip(lstrip(text))
\* str.lower()
lower(text) == [i \in 1..Len(text) |-> [text[i] EXCEPT !.upper = FALSE]]

SchemaStatuses == {Word(w) : w \in {"pending", "in_progress", "completed", "blocked", "failed"}}
PendingVariants ==
    {Word(w) : w \in {"not_started", "todo", "to_do", "backlog"}}
        \cup {Word("not") \o <<Space>> \o Word("started")}
InProgressVariants == {Word(w) : w \in {"in-progress", "inprogress", "working"}}
CompletedVariants == {Word(w) : w \in {"done", "complete", "completed_successfully"}}

\* Variant: the value is compared as written, without strip().
_normalize_status_NoStrip(value) ==
    IF value.type # "str" THEN Word("pending")
    ELSE LET normalized == lower(value.text) IN
         IF normalized \in SchemaStatuses THEN normalized
         ELSE IF normalized \in PendingVariants THEN Word("pending")
         ELSE IF normalized \in InProgressVariants THEN Word("in_progress")
         ELSE IF normalized \in CompletedVariants THEN Word("completed")
         ELSE Word("pending")

_normalize_status(value) ==
    IF value.type # "str" THEN Word("pending")
    ELSE LET normalized == lower(strip(value.text)) IN
         IF normalized \in SchemaStatuses THEN normalized
         ELSE IF normalized \in PendingVariants THEN Word("pending")
         ELSE IF normalized \in InProgressVariants THEN Word("in_progress")
         ELSE IF normalized \in CompletedVariants THEN Word("completed")
         ELSE Word("pending")

\* the values tried: non-strings, and strings made of at most MaxPad
\* whitespace pieces, a core, and at most MaxPad whitespace pieces
StatusWords ==
    {"pending", "in_progress", "completed", "blocked", "failed",
     "not_started", "todo", "to_do", "backlog", "in-progress", "inprogress",
     "working", "done", "complete", "completed_successfully",
     "not", "started", "unknown"}
PairWords == {"not", "started", "pending"}
Cores ==
    {<<>>} \cup UNION {Cased(w) : w \in StatusWords}
           \cup {a \o <<Space>> \o b : a \in UNION {Cased(w) : w \in PairWords},
                                       b \in UNION {Cased(w) : w \in PairWords}}
Strings == {Spaces(l) \o core \o Spaces(r) : l \in 0..MaxPad, r \in 0..MaxPad, core \in Cores}
StatusValues == {PyString(text) : text \in Strings} \cup {PyNone, PyInt(1), PyBool(1), PyList}

\* one call: on the value first, then on what the call before returned
NormalizeStatus ==
    /\ Len(status_results) < MaxApplications
    /\ status_results' =
          Append(status_results,
                 _normalize_status(IF status_results = <<>> THEN status_value
                                   ELSE PyString(status_results[Len(status_results)])))
    /\ UNCHANGED status_value

InitStatus ==
    /\ InitOrchestratorIdle /\ InitEngineIdle /\ InitWorkspaceIdle /\ InitDiscardIdle
    /\ InitValidateIdle /\ InitSetupIdle
    /\ status_value \in StatusValues
    /\ status_results = <<>>
    /\ plan_file = "idle" /\ fix_calls = <<>>

NextStatus ==
    NormalizeStatus /\ UNCHANGED <<lockVars, mergeVars, engineVars, workspaceVars, discardVars, validateVars, setupVars, planVars>>

SpecStatus == InitStatus /\ [][NextStatus]_vars

\* ======================================================================
\* auto_fix_plan (SpecAutoFix)
\* ======================================================================
MaxCalls == 2

\* a dict is a record of all the keys the code looks at; a key the dict does
\* not have holds NoKey
NoKey == [type |-> "absent"]
PyListOf(items) == [type |-> "list", text |-> items, num |-> 0]
Has(d, key) == d[key] # NoKey
\* dict.get(key) and dict.get(key, default)
Get(d, key) == IF Has(d, key) THEN d[key] ELSE PyNone
GetOr(d, key, default) == IF Has(d, key) THEN d[key] ELSE default
\* truth value of a Python value
truth(v) ==
    CASE v.type = "str" -> v.text # <<>>
      [] v.type = "list" -> v.text # <<>>
      [] v.type = "int" -> v.num # 0
      [] v.type = "dict" -> TRUE
      [] OTHER -> FALSE
\* a or b or c
FirstTruthy(a, b, c) == IF truth(a) THEN a ELSE IF truth(b) THEN b ELSE c
\* str(v)
str(v) ==
    CASE v.type = "str" -> v.text
      [] v.type = "int" -> Word(ToString(v.num))
      [] OTHER -> Word(v.type)
\* str.isdigit() and int(str) on the strings tried
Digits == {Word(ToString(n)) : n \in 0..9}
isdigit(text) == text \in Digits
int(text) == CHOOSE n \in 0..9 : Word(ToString(n)) = text

Subtask(id, subtask_id, description, status) ==
    [type |-> "dict", id |-> id, subtask_id |-> subtask_id,
     description |-> description, status |-> status]
Phase(name, title, phase, phase_id, id, depends_on, subtasks, chunks) ==
    [type |-> "dict", name |-> name, title |-> title, phase |-> phase,
     phase_id |-> phase_id, id |-> id, depends_on |-> depends_on,
     subtasks |-> subtasks, chunks |-> chunks]
Plan(feature, title, spec_id, workflow_type, phases, subtasks, chunks) ==
    [type |-> "dict", feature |-> feature, title |-> title, spec_id |-> spec_id,
     workflow_type |-> workflow_type, phases |-> phases, subtasks |-> subtasks,
     chunks |-> chunks]

\* core.plan_normalization.normalize_subtask_aliases: a subtask without "id"
\* takes it from its "subtask_id" alias
normalize_subtask_aliases(subtask) ==
    IF ~Has(subtask, "id") /\ Has(subtask, "subtask_id")
    THEN [normalized |-> [subtask EXCEPT !.id = PyString(str(subtask.subtask_id))],
          changed |-> TRUE]
    ELSE [normalized |-> subtask, changed |-> FALSE]

\* One fix after another on the same dict: `run` is the dict so far with the
\* `fixed` flag so far, Fix(d) the dict after the next fix with whether the
\* fix set the flag.
Then(run, Fix(_)) ==
    CHOOSE out \in {[value |-> Fix(r.value).value, fixed |-> r.fixed \/ Fix(r.value).fixed] :
                       r \in {run}} : TRUE
Start(d) == [value |-> d, fixed |-> FALSE]

\* body of `for j, subtask in enumerate(...)`; i and j count from 1
FixSubtask(subtask, i, j) ==
    LET Aliases(d) ==
            LET n == normalize_subtask_aliases(d)
            IN [value |-> IF n.changed THEN n.normalized ELSE d, fixed |-> n.changed]
        Id(d) ==
            IF ~Has(d, "id")
            THEN [value |-> [d EXCEPT !.id = PyString(Word("subtask-" \o ToString(i)
                                                          \o "-" \o ToString(j)))],
                  fixed |-> TRUE]
            ELSE Start(d)
        Description(d) ==
            IF ~Has(d, "description")
            THEN [value |-> [d EXCEPT !.description = PyString(Word("No description"))],
                  fixed |-> TRUE]
            ELSE Start(d)
        Status(d) ==
            IF ~Has(d, "status")
            THEN [value |-> [d EXCEPT !.status = PyString(Word("pending"))], fixed |-> TRUE]
            ELSE LET normalized_status == PyString(_normalize_status(Get(d, "status")))
                 IN IF Get(d, "status") # normalized_status
                    THEN [value |-> [d EXCEPT !.status = normalized_status], fixed |-> TRUE]
                    ELSE Start(d)
    IN Then(Then(Then(Then(Start(subtask), Aliases), Id), Description), Status)

\* Variant: an empty "subtasks" falls back to "chunks" only when that
\* changes it.
SubtasksFallback_WhenDifferent(phase) ==
    IF ~Has(phase, "subtasks")
    THEN [value |-> [phase EXCEPT !.subtasks = GetOr(phase, "chunks", PyList)],
          fixed |-> TRUE]
    ELSE IF Has(phase, "chunks") /\ ~truth(Get(phase, "subtasks"))
              /\ phase.chunks # phase.subtasks
    THEN [value |-> [phase EXCEPT !.subtasks = GetOr(phase, "chunks", PyList)],
          fixed |-> TRUE]
    ELSE [value |-> phase, fixed |-> FALSE]

\* `if "subtasks" not in phase: ... elif "chunks" in phase and not
\* phase.get("subtasks"): ...`
SubtasksFallback(phase) ==
    IF ~Has(phase, "subtasks")
    THEN [value |-> [phase EXCEPT !.subtasks = GetOr(phase, "chunks", PyList)],
          fixed |-> TRUE]
    ELSE IF Has(phase, "chunks") /\ ~truth(Get(phase, "subtasks"))
    THEN [value |-> [phase EXCEPT !.subtasks = GetOr(phase, "chunks", PyList)],
          fixed |-> TRUE]
    ELSE [value |-> phase, fixed |-> FALSE]

\* the depends_on list the code wants
NormalizedDependsOn(depends_on_raw) ==
    IF depends_on_raw.type = "list"
    THEN LET kept == SelectSeq(depends_on_raw.text, LAMBDA dep : dep # PyNone)
         IN PyListOf([k \in 1..Len(kept) |-> PyString(strip(str(kept[k])))])
    ELSE IF depends_on_raw = PyNone THEN PyList
    ELSE PyListOf(<<PyString(strip(str(depends_on_raw)))>>)

\* `if "phase" not in phase and "phase_id" in phase:`
PhaseFromId(phase) ==
    LET phase_id == Get(phase, "phase_id")
        phase_id_str == IF phase_id # PyNone THEN strip(str(phase_id)) ELSE <<>>
        phase_num == IF phase_id.type = "int" THEN phase_id
                     ELSE IF phase_id.type = "str" /\ isdigit(phase_id_str)
                     THEN PyInt(int(phase_id_str))
                     ELSE PyNone
    IN IF Has(phase, "phase") \/ ~Has(phase, "phase_id") THEN Start(phase)
       ELSE IF phase_num # PyNone
       THEN [value |-> [phase EXCEPT
                          !.id = IF ~Has(phase, "id") THEN PyString(str(phase_num)) ELSE @,
                          !.phase = phase_num],
             fixed |-> TRUE]
       ELSE IF ~Has(phase, "id") /\ phase_id # PyNone
       THEN [value |-> [phase EXCEPT !.id = PyString(phase_id_str)], fixed |-> TRUE]
       ELSE Start(phase)

\* body of `for i, phase in enumerate(...)`; i counts from 1
FixPhase(phase, i) ==
    LET NameFromTitle(d) ==
            IF ~Has(d, "name") /\ Has(d, "title")
            THEN [value |-> [d EXCEPT !.name = Get(d, "title")], fixed |-> TRUE]
            ELSE Start(d)
        PhaseDefault(d) ==
            IF ~Has(d, "phase")
            THEN [value |-> [d EXCEPT !.phase = PyInt(i)], fixed |-> TRUE]
            ELSE Start(d)
        DependsOn(d) ==
            LET depends_on_raw == GetOr(d, "depends_on", PyList)
                normalized_depends_on == NormalizedDependsOn(depends_on_raw)
            IN IF normalized_depends_on # depends_on_raw
               THEN [value |-> [d EXCEPT !.depends_on = normalized_depends_on], fixed |-> TRUE]
               ELSE Start(d)
        NameDefault(d) ==
            IF ~Has(d, "name")
            THEN [value |-> [d EXCEPT !.name = PyString(Word("Phase " \o ToString(i)))],
                  fixed |-> TRUE]
            ELSE Start(d)
        Subtasks(d) ==
            LET subtasks == GetOr(d, "subtasks", PyList).text
                fixes == [j \in 1..Len(subtasks) |-> FixSubtask(subtasks[j], i, j)]
            IN IF Len(subtasks) = 0 THEN Start(d)
               ELSE [value |-> [d EXCEPT !.subtasks =
                                   PyListOf([j \in 1..Len(subtasks) |-> fixes[j].value])],
                     fixed |-> \E j \in 1..Len(subtasks) : fixes[j].fixed]
    IN Then(Then(Then(Then(Then(Then(Then(Start(phase), NameFromTitle), PhaseFromId),
                                PhaseDefault), DependsOn), NameDefault),
                 SubtasksFallback), Subtasks)

\* the fixes of auto_fix_plan on the loaded plan: the plan json.dump would
\* write, and `fixed`
FixPlan(plan) ==
    LET Wrap(d) ==
            IF /\ ~Has(d, "phases")
               /\ (Get(d, "subtasks").type = "list" \/ Get(d, "chunks").type = "list")
            THEN [value |->
                    [d EXCEPT
                       !.phases = PyListOf(<<Phase(PyString(Word("Phase 1")), NoKey, PyInt(1),
                                                   NoKey, PyString(Word("1")), NoKey,
                                                   FirstTruthy(Get(d, "subtasks"),
                                                               Get(d, "chunks"), PyList),
                                                   NoKey)>>),
                       !.subtasks = NoKey, !.chunks = NoKey],
                  fixed |-> TRUE]
            ELSE Start(d)
        Feature(d) ==
            IF ~Has(d, "feature")
            THEN [value |-> [d EXCEPT !.feature =
                                FirstTruthy(Get(d, "title"), Get(d, "spec_id"),
                                            PyString(Word("Unnamed Feature")))],
                  fixed |-> TRUE]
            ELSE Start(d)
        WorkflowType(d) ==
            IF ~Has(d, "workflow_type")
            THEN [value |-> [d EXCEPT !.workflow_type = PyString(Word("feature"))],
                  fixed |-> TRUE]
            ELSE Start(d)
        Phases(d) ==
            IF ~Has(d, "phases")
            THEN [value |-> [d EXCEPT !.phases = PyList], fixed |-> TRUE]
            ELSE Start(d)
        EachPhase(d) ==
            LET phases == d.phases.text
                fixes == [i \in 1..Len(phases) |-> FixPhase(phases[i], i)]
            IN IF Len(phases) = 0 THEN Start(d)
               ELSE [value |-> [d EXCEPT !.phases =
                                   PyListOf([i \in 1..Len(phases) |-> fixes[i].value])],
                     fixed |-> \E i \in 1..Len(phases) : fixes[i].fixed]
    IN Then(Then(Then(Then(Then(Start(plan), Wrap), Feature), WorkflowType), Phases),
            EachPhase)

\* implementation_plan.json: no file, bytes json.load rejects, or a document
Missing == [type |-> "missing"]
NotJSON == [type |-> "not_json"]
\* json.dump(plan, f, indent=2, ensure_ascii=False) and json.load(f): on
\* dicts with str keys, lists, strs, ints and null the document read back is
\* the value written
Document(v) == [type |-> "json", value |-> v]

\* what a call did: its return value (or "raise"), whether it wrote the
\* file, the file it found, and whether an open, read or write failed
Call(returned_value, rewrote, before, error) ==
    [returned |-> returned_value, rewrote |-> rewrote, before |-> before,
     error |-> error]

\* how the file system answers a call
IOOutcomes == {"ok", "read_error", "write_error"}

auto_fix_plan ==
    /\ Len(fix_calls) < MaxCalls
    /\ \E io \in IOOutcomes :
         IF plan_file = Missing
         THEN /\ fix_calls' = Append(fix_calls, Call("False", FALSE, plan_file, FALSE))
              /\ UNCHANGED plan_file
         ELSE IF io = "read_error"
         THEN /\ fix_calls' = Append(fix_calls, Call("False", FALSE, plan_file, TRUE))
              /\ UNCHANGED plan_file
         ELSE IF plan_file = NotJSON
         THEN /\ fix_calls' = Append(fix_calls, Call("False", FALSE, plan_file, FALSE))
              /\ UNCHANGED plan_file
         ELSE IF plan_file.value.type # "dict"
         THEN /\ fix_calls' = Append(fix_calls, Call("raise", FALSE, plan_file, FALSE))
              /\ UNCHANGED plan_file
         ELSE LET r == FixPlan(plan_file.value) IN
              IF ~r.fixed
              THEN /\ fix_calls' = Append(fix_calls, Call("False", FALSE, plan_file, FALSE))
                   /\ UNCHANGED plan_file
              ELSE IF io = "write_error"
              THEN /\ fix_calls' = Append(fix_calls, Call("False", FALSE, plan_file, TRUE))
                   /\ plan_file' \in {plan_file, NotJSON}
              ELSE /\ fix_calls' = Append(fix_calls, Call("True", TRUE, plan_file, FALSE))
                   /\ plan_file' = Document(r.value)

\* the plans tried
StatusInputs ==
    {NoKey, PyString(Word("pending")),
     PyString(<<Space, [word |-> "done", upper |-> TRUE], Space>>), PyInt(1)}
SubtaskInputs ==
    {Subtask(id[1], id[2], description, status) :
        id \in {<<PyString(Word("s")), NoKey>>, <<NoKey, PyString(Word("alias"))>>,
                <<NoKey, NoKey>>},
        description \in {NoKey, PyString(Word("d"))},
        status \in StatusInputs}
SubtaskLists == {PyList} \cup {PyListOf(<<st>>) : st \in SubtaskInputs}
ChunkLists ==
    {NoKey, PyList,
     PyListOf(<<Subtask(PyString(Word("c")), NoKey, PyString(Word("d")),
                        PyString(Word("pending")))>>)}
DependsOnInputs ==
    {NoKey, PyNone, PyListOf(<<PyInt(1), PyNone>>), PyListOf(<<PyString(Word("p"))>>),
     PyString(<<Space>> \o Word("p"))}
GoodSubtasks ==
    PyListOf(<<Subtask(PyString(Word("s")), NoKey, PyString(Word("d")),
                       PyString(Word("pending")))>>)
\* every form of the phase keys over a well-formed subtask list, and every
\* subtasks and chunks list under well-formed and under missing phase keys
PhaseInputs ==
    {Phase(nm[1], nm[2], ph[1], ph[2], ph[3], depends_on, GoodSubtasks, NoKey) :
        nm \in {<<PyString(Word("n")), NoKey>>, <<NoKey, PyString(Word("t"))>>,
                <<NoKey, NoKey>>},
        ph \in {<<PyInt(1), NoKey, id>> : id \in {NoKey, PyString(Word("i"))}}
               \cup {<<NoKey, phase_id, id>> :
                        phase_id \in {NoKey, PyNone, PyInt(2), PyString(Word("x"))},
                        id \in {NoKey, PyString(Word("i"))}},
        depends_on \in DependsOnInputs}
    \cup
    {Phase(nm, NoKey, ph, NoKey, NoKey, NoKey, subtasks, chunks) :
        nm \in {NoKey, PyString(Word("n"))},
        ph \in {NoKey, PyInt(1)},
        subtasks \in {NoKey} \cup SubtaskLists,
        chunks \in ChunkLists}
TopInputs ==
    {<<PyString(Word("f")), NoKey, NoKey>>, <<NoKey, PyString(Word("t")), NoKey>>,
     <<NoKey, NoKey, PyString(Word("s"))>>, <<NoKey, NoKey, NoKey>>}
        \X {NoKey, PyString(Word("feature"))}
\* every top level with no phase or with the top-level subtasks of older
\* plans; every phase under a complete and under an empty top level
PlanInputs ==
    {Plan(top[1][1], top[1][2], top[1][3], top[2], PyList, NoKey, NoKey) : top \in TopInputs}
    \cup
    {Plan(feature, NoKey, NoKey, feature, PyListOf(<<ph>>), NoKey, NoKey) :
        feature \in {NoKey, PyString(Word("feature"))}, ph \in PhaseInputs}
    \cup
    {Plan(top[1][1], top[1][2], top[1][3], top[2], NoKey, subtasks, chunks) :
        top \in TopInputs, subtasks \in {NoKey, PyList, GoodSubtasks}, chunks \in ChunkLists}
PlanFiles == {Missing, NotJSON, Document(PyList)} \cup {Document(plan) : plan \in PlanInputs}

InitAutoFix ==
    /\ InitOrchestratorIdle /\ InitEngineIdle /\ InitWorkspaceIdle /\ InitDiscardIdle
    /\ InitValidateIdle /\ InitSetupIdle
    /\ status_value = "idle" /\ status_results = <<>>
    /\ plan_file \in PlanFiles
    /\ fix_calls = <<>>

NextAutoFix ==
    auto_fix_plan /\ UNCHANGED <<lockVars, mergeVars, engineVars, workspaceVars, discardVars, validateVars, setupVars, statusVars>>

SpecAutoFix == InitAutoFix /\ [][NextAutoFix]_vars

\* ======================================================================
\* Properties
\* ======================================================================

AfterWithPcs == {"released", "dispatch", "merge_worktree", "fallback", "done"}
InitialTree == [f \in Files |-> InitialContent(f)]
\* what the spec branch holds for a path
SpecState(f) == IF repo[f].inSpec THEN "spec" ELSE "absent"
BothSides(f) == repo[f].inMain /\ repo[f].inSpec
Recorded == evolution # "none" \/ timeline # "none"
HumanConflicts == {c \in preview : c.can_auto_merge = FALSE}
\* _resolve_git_conflicts_with_ai has returned its failure dict
ResolutionFailed == smart_result.kind = "dict" /\ smart_result.git_conflicts

\* C1 (SpecLock): lock exclusivity - at no instant have two processes both
\* completed acquire for the spec without yet having released.
C1_LockExclusivity ==
    \A p \in Procs, q \in Procs : p # q => ~(Holding(p) /\ Holding(q))

\* C2: every step of merge_existing_build that changes the working tree or
\* the index of the main checkout is taken while the process holds the lock.
C2_WritesOnlyUnderLock ==
    [][(tree' # tree \/ index' # index) => Holding(Self)]_vars

\* C3: when the lock is validly held by another live process, the merge
\* reports failure with LockHeld and nothing is modified; no VCS merge of the
\* spec branch is attempted.
C3_ContentionNoSideEffects ==
    (smart_result.error = "LockHeld" /\ lockFile = LockRecord(LivePid, StartTime))
        => /\ mwCalls = 0
           /\ tree = InitialTree /\ index = InitialTree
           /\ ~committed /\ worktree
           /\ (pc[Self] = "done" => result = "False")

\* C4: whenever merge_existing_build returns True, mark_task_completed and
\* on_task_merged were invoked for the spec.
C4_CompletionRecorded ==
    result = "True" => (evolution # "none" /\ timeline # "none")

\* C5: the step that copies the changed files of the spec branch never
\* touches a conflicting file that exists on both sides, so the merged
\* content written for it stays in the main checkout and the index.
C5_ResolvedContentKept ==
    [][pc[Self] = "copy" =>
          \A f \in git_conflicts.conflicting_files :
             BothSides(f) => (tree'[f] = tree[f] /\ index'[f] = index[f])]_vars

\* C6 as stated: with a conflict that cannot be auto-merged the merge ends in
\* failure and merge_worktree is not invoked.
C6_NoMergeOnHumanConflict ==
    HumanConflicts # {} =>
        (mwCalls = 0 /\ (pc[Self] = "done" => result = "False"))

\* C6 as amended: with a conflict that cannot be auto-merged the smart merge
\* returns failure carrying exactly those conflicts; merge_existing_build then
\* invokes merge_worktree once as its git-merge fallback and returns that
\* call's outcome.
C6_HumanConflictFallsBack ==
    HumanConflicts # {} =>
        /\ smart_result.kind = "dict"
        /\ ~smart_result.success
        /\ smart_result.conflicts = HumanConflicts
        /\ pc[Self] \in {"exit_check", "exit_unlink", "released"} => mwCalls = 0
        /\ pc[Self] = "done" =>
              /\ mwCalls = 1
              /\ result = (IF worktree THEN "False" ELSE "True")

C6_Witness ==
    /\ pc[Self] = "done"
    /\ HumanConflicts # {}
    /\ mwCalls = 1
    /\ result = "True"

\* C7: if a conflicting file is left unresolved, the result is a failure
\* carrying the resolved files and the remaining conflicts, no commit is
\* created, and merge_existing_build returns False.
C7_UnresolvedFails ==
    (remaining_conflicts # {} /\ pc[Self] # "resolve" /\ exc[Self] = "none") =>
        /\ smart_result.kind = "dict"
        /\ ~smart_result.success
        /\ smart_result.resolved = resolved_files
        /\ smart_result.conflicts = remaining_conflicts
        /\ ~committed
        /\ mwCalls = 0
        /\ pc[Self] = "done" => result = "False"

C7_Witness ==
    /\ pc[Self] = "done"
    /\ remaining_conflicts # {}
    /\ resolved_files # <<>>
    /\ result = "False"

StagingFailed == \E f \in Files : index[f] # tree[f]
C9_RecordedOnlyAfterStaging ==
    Recorded => ~StagingFailed

ProcessAlive(pid) == pid \in Procs \cup {LivePid, OtherUserPid, 0}

\* C11 (SpecLock): when __enter__ reads a well-formed record that is at most
\* MERGE_LOCK_TIMEOUT seconds old and whose pid is a live process, it fails
\* with MergeLockError, the lock file keeps its content and the caller is not
\* marked as having acquired.
C11_HeldLockRefused ==
    [][\A p \in Procs :
          (/\ pc[p] = "enter_read" /\ pc'[p] # "enter_read"
           /\ lockFile.kind = "ok"
           /\ now - lockFile.ts <= MERGE_LOCK_TIMEOUT
           /\ ProcessAlive(lockFile.pid))
          => (pc'[p] = "lockerr" /\ lockFile' = lockFile /\ ~acquired'[p])]_vars

\* A record that is older than the timeout or whose pid is no live process
Reclaimable(content, t) ==
    /\ content.kind = "ok"
    /\ (t - content.ts > MERGE_LOCK_TIMEOUT \/ ~ProcessAlive(content.pid))

C13_ReleaseOnlyAfterAcquire ==
    [][\A p \in Procs :
          /\ (pc[p] \in {"lockerr", "raised"} /\ pc'[p] # pc[p])
                => lockFile' = lockFile
          /\ (pc[p] = "exit_check" /\ pc'[p] # pc[p])
                => (lockFile' = lockFile /\ pc'[p] \in {"exit_unlink", "released"})
          /\ (pc[p] = "exit_unlink" /\ pc'[p] # pc[p])
                => (acquired[p] /\ pc'[p] = "released")]_vars

C13_Witness ==
    \E p \in Procs, q \in Procs :
        /\ p # q
        /\ pc[p] = "released" /\ unlink_error[p] /\ lockFile.pid = p
        /\ pc[q] = "lockerr" /\ ~acquired[q]

\* C14: when .worktrees/<spec> does not exist, merge_existing_build returns
\* False without acquiring the merge lock, without a call to either tracker
\* and without a write to the working tree, the index or the branches.
\* (The worktree is removed only in a step that makes the result True, so a
\* missing worktree with another result was missing at the call.)
C14_NoBuildNoEffects ==
    (~worktree /\ result # "True") =>
        /\ pc[Self] \in {"idle", "done"}
        /\ pc[Self] = "done" => result = "False"
        /\ ~acquired[Self] /\ lockFile.pid # Self
        /\ ~captured /\ ~refreshed /\ evolution = "none" /\ timeline = "none"
        /\ tree = InitialTree /\ index = InitialTree
        /\ ~committed /\ mwCalls = 0

C14_Witness ==
    /\ ~worktree
    /\ pc[Self] = "done"
    /\ result = "False"
    /\ mwCalls = 0

\* C15: the worktree and the branch of the spec are removed only in the step
\* that completes a successful merge: that run returns True and has left no
\* conflict unresolved.
C15_RemovedOnlyOnSuccess ==
    [][(worktree /\ ~worktree') =>
          (result' = "True" /\ pc'[Self] = "done" /\ remaining_conflicts' = {})]_vars

C15_Witness ==
    /\ pc[Self] = "done"
    /\ result = "False"
    /\ remaining_conflicts # {}
    /\ worktree

\* C19: the step that runs _check_git_conflicts leaves the working tree, the
\* index and the branches (base branch commits, spec branch and worktree) as
\* they were, whether it reports conflicts or not.
C19_CheckLeavesRepository ==
    [][(pc[Self] = "check" /\ pc'[Self] # "check") =>
          UNCHANGED <<tree, index, committed, worktree, repo>>]_vars

C19_Witness ==
    /\ pc[Self] = "resolve"
    /\ git_conflicts.has_conflicts
    /\ git_conflicts.conflicting_files # {}
    /\ todo = git_conflicts.conflicting_files
    /\ tree = InitialTree /\ index = InitialTree

\* C16 (SpecEngine): for a file whose extension is in the binary set
\* (whatever its case), or with more than MAX_FILE_LINES_FOR_AI lines on the
\* main or the worktree side, _merge_file_with_ai returns None and the AI
\* caller is never invoked.
Oversize == \/ count_lines(main_content) > MAX_FILE_LINES_FOR_AI
            \/ count_lines(worktree_content) > MAX_FILE_LINES_FOR_AI
BinaryPath == Lower(file_path) \in BINARY_EXTENSIONS
C16_GuardsSkipAI ==
    (epc # "call" /\ (BinaryPath \/ Oversize)) =>
        (epc = "done" /\ returned = NoneValue /\ ai_calls = <<>>)

C16_Witness ==
    /\ epc = "done"
    /\ ai_call_fn
    /\ ~BinaryPath
    /\ count_lines(main_content) = MAX_FILE_LINES_FOR_AI
    /\ count_lines(worktree_content) = MAX_FILE_LINES_FOR_AI + 1
    /\ returned = NoneValue
    /\ ai_calls = <<>>

\* C17 (SpecEngine): with no AI caller, for a file that passes the two
\* guards: without a base the result is the worktree content; when exactly
\* one of main and worktree differs from the base it is the side that
\* changed; when both differ it is None. No AI call is made.
HeuristicReached == epc = "done" /\ ~ai_call_fn /\ ~BinaryPath /\ ~Oversize
C17_HeuristicFallback ==
    HeuristicReached =>
        /\ ai_calls = <<>>
        /\ base_content = NoneValue => returned = worktree_content
        /\ (base_content # NoneValue /\ main_content = base_content
               /\ worktree_content # base_content) => returned = worktree_content
        /\ (base_content # NoneValue /\ main_content # base_content
               /\ worktree_content = base_content) => returned = main_content
        /\ (base_content # NoneValue /\ main_content # base_content
               /\ worktree_content # base_content) => returned = NoneValue

C17_Witness ==
    /\ HeuristicReached
    /\ base_content # NoneValue
    /\ main_content # base_content
    /\ worktree_content # base_content
    /\ main_content # worktree_content
    /\ returned = NoneValue

\* C18 (SpecEngine): the full-file strategy calls the AI once for the merge
\* and, only when the extracted code fails syntax validation, exactly once
\* more with the fix prompt; when the retry gives no code or invalid code the
\* result is None and no further AI call is made.
CallCount(prompt) == Cardinality({i \in 1..Len(ai_calls) : ai_calls[i] = prompt})
C18_RetryOnce ==
    /\ CallCount("full") <= 1 /\ CallCount("fix") <= 1
    /\ CallCount("fix") = 1 =>
          /\ full_check = "invalid"
          /\ ai_calls[Len(ai_calls)] = "fix"
          /\ ai_calls[Len(ai_calls) - 1] = "full"
    /\ (full_check = "invalid" /\ epc = "done") => CallCount("fix") = 1
    /\ retry_check \in {"no_code", "invalid"} =>
          (epc = "done" /\ returned = NoneValue)

C18_Witness ==
    /\ epc = "done"
    /\ CallCount("full") = 1 /\ CallCount("fix") = 1
    /\ full_check = "invalid"
    /\ retry_check = "invalid"
    /\ returned = NoneValue

\* C20 (SpecWorkspace): what choose_workspace returns: the mode of a set
\* force flag; otherwise ISOLATED for a dirty tree; otherwise ISOLATED with
\* auto_continue; the user's menu choice only with no flag set and a clean
\* tree. DIRECT is never returned for a dirty tree unless force_direct is set.
Dirty == status_output # ""
Returned == mode \in {"ISOLATED", "DIRECT"}
C20_WorkspacePolicy ==
    Returned =>
        /\ force_isolated => mode = "ISOLATED"
        /\ (force_direct /\ ~force_isolated) => mode = "DIRECT"
        /\ (~force_isolated /\ ~force_direct /\ Dirty) => mode = "ISOLATED"
        /\ (~force_isolated /\ ~force_direct /\ auto_continue) => mode = "ISOLATED"
        /\ (~force_isolated /\ ~force_direct /\ ~auto_continue /\ ~Dirty) =>
              mode = (IF menu_choice = "direct" THEN "DIRECT" ELSE "ISOLATED")
        /\ (mode = "DIRECT" /\ Dirty) => force_direct

C20_Witness ==
    /\ mode = "ISOLATED"
    /\ ~force_isolated /\ ~force_direct /\ ~auto_continue
    /\ Dirty
    /\ menu_choice = "direct"

\* C21 (SpecDiscard): the worktree and branch of the spec are removed only by
\* discard_existing_build, only when a build exists and the typed line is
\* 'delete' once trimmed and lower-cased; on any other line, on Ctrl-C and
\* when no build exists the call returns False and nothing is removed, and
\* finalize_workspace removes nothing.
ConfirmingLines == {"delete", "DELETE", "  delete ", "Delete\t"}
Declined ==
    \/ ~existing_build
    \/ typed \in TypedLines \ ConfirmingLines
    \/ typed = CtrlC
C21_DiscardOnlyConfirmed ==
    [][/\ existing_build' # existing_build =>
              /\ existing_build /\ typed \in ConfirmingLines
              /\ discarded' = "True"
       /\ (dpc # "done" /\ dpc' = "done" /\ Declined) =>
              /\ discarded' = "False"
              /\ existing_build' = existing_build
       /\ discarded' = "True" => typed \in ConfirmingLines]_vars

C21_Witness ==
    /\ dpc = "done" /\ discarded = "True"
    /\ typed = "Delete\t"
    /\ ~existing_build
    /\ workspace_choice \in {"TEST", "MERGE", "REVIEW", "LATER"}

\* C22 (Spec): an error of a tracker before resolution does not abort the
\* intent-aware merge: after a failed capture_worktree_state the refresh still
\* runs, and after a failed refresh_from_git the git-conflict detection still
\* runs (only a KeyboardInterrupt leaves the block).
C22_TrackerErrorTolerated ==
    [][/\ (pc[Self] = "locked" /\ pc'[Self] # "locked"
              /\ ~captured' /\ exc'[Self] = "none") => pc'[Self] = "refresh"
       /\ (pc[Self] = "refresh" /\ pc'[Self] # "refresh"
              /\ ~refreshed' /\ exc'[Self] = "none") => pc'[Self] = "check"]_vars

\* C23 (Spec): a failure while staging (a failing `git add`, a failing write
\* or copy) aborts the merge for the spec: with a main checkout whose index
\* does not hold what was written, the run neither reports success nor
\* records completion.
ReportsSuccess == smart_result.kind = "dict" /\ smart_result.success
C23_StagingFailureAborts ==
    StagingFailed => ~ReportsSuccess /\ ~Recorded

\* C24 (SpecEngine): when the three-way merge of the file gave conflict
\* regions, the region-only prompt is the first AI call; its reassembled
\* result is returned only if it passed syntax validation; after an empty
\* answer, no extractable resolution, a failed validation or a raised call
\* the full-file prompt is the next AI call.
RegionTried == region_check \in {"raise", "empty", "invalid", "valid"}
C24_RegionFirstThenFull ==
    /\ RegionTried =>
          /\ Len(ai_calls) >= 1 /\ ai_calls[1] = "conflict_only"
          /\ region_check = "valid" =>
                /\ epc = "done" /\ returned = AIText("merged_regions")
                /\ Len(ai_calls) = 1
          /\ region_check # "valid" =>
                /\ epc \in {"full", "retry", "done"}
                /\ epc # "full" => Len(ai_calls) >= 2 /\ ai_calls[2] = "full"
    /\ returned = AIText("merged_regions") => region_check = "valid"
    /\ \A i \in 1..Len(ai_calls) : ai_calls[i] = "conflict_only" => i = 1

C24_Witness ==
    /\ epc = "done"
    /\ Truthy(base_content) /\ project_dir
    /\ region_check = "invalid"
    /\ ai_calls = <<"conflict_only", "full">>
    /\ returned = AIText("merged_full")

\* C25 (Spec): per-file failures do not abort the resolution loop: a file the
\* engine cannot merge, or whose processing raises, goes to
\* remaining_conflicts with severity high and the loop goes on, so every
\* conflicting file the loop has processed that exists on at least one side
\* is, during the loop and at its end, in exactly one of resolved_files and
\* remaining_conflicts.
Processed ==
    IF pc[Self] = "resolve" THEN git_conflicts.conflicting_files \ todo ELSE {}
InResolved(f) == \E i \in 1..Len(resolved_files) : resolved_files[i] = f
InRemaining(f) == \E c \in remaining_conflicts : c.file = f
C25_PerFileFailureCollected ==
    /\ \A f \in Processed :
          (repo[f].inMain \/ repo[f].inSpec) => (InResolved(f) # InRemaining(f))
    /\ \A c \in remaining_conflicts : c.severity = "high"

C25_Witness ==
    /\ pc[Self] = "resolve" /\ todo = {}
    /\ git_conflicts.conflicting_files = Files
    /\ InRemaining(1) /\ ~InResolved(1)
    /\ \A f \in Files \ {1} : InResolved(f) /\ ~InRemaining(f)

\* C26 (Spec): one iteration of the resolution loop, by where the path
\* exists: absent on the base branch, the content of the spec branch is
\* written and `git add` run, and the path counts as resolved; absent on the
\* spec branch, the file is deleted from the main checkout and `git add` run,
\* and the path counts as resolved; absent on both, the path is skipped; the
\* merge engine decides (merged content, or an unresolved conflict without
\* an exception) only for a path present on both sides. An iteration that
\* raises changes no file and reports the path.
IterationRaised(f) ==
    /\ tree'[f] = tree[f] /\ index'[f] = index[f]
    /\ resolved_files' = resolved_files
    /\ remaining_conflicts' = remaining_conflicts \cup {RemainingConflict(f)}
IterationWrote(f, content) ==
    /\ tree'[f] = content
    /\ index'[f] \in {content, index[f]}
    /\ resolved_files' = Append(resolved_files, f)
    /\ remaining_conflicts' = remaining_conflicts
IterationSkipped(f) ==
    /\ tree'[f] = tree[f] /\ index'[f] = index[f]
    /\ resolved_files' = resolved_files
    /\ remaining_conflicts' = remaining_conflicts
C26_DispatchBySide ==
    [][(pc[Self] = "resolve" /\ todo # {} /\ todo' # todo) =>
          LET f == Min(todo) IN
          /\ (~repo[f].inMain /\ repo[f].inSpec) =>
                 IterationWrote(f, "spec") \/ IterationRaised(f)
          /\ (repo[f].inMain /\ ~repo[f].inSpec) =>
                 IterationWrote(f, "absent") \/ IterationRaised(f)
          /\ (~repo[f].inMain /\ ~repo[f].inSpec) =>
                 IterationSkipped(f) \/ IterationRaised(f)
          /\ BothSides(f) =>
                 IterationWrote(f, "merged") \/ IterationRaised(f)
          /\ \A g \in Files \ {f} : tree'[g] = tree[g] /\ index'[g] = index[g]]_vars

C26_Witness ==
    /\ pc[Self] = "resolve" /\ todo = {}
    /\ git_conflicts.conflicting_files = Files
    /\ ~repo[1].inMain /\ repo[1].inSpec
    /\ tree[1] = "spec" /\ index[1] = "spec"
    /\ repo[2].inMain /\ ~repo[2].inSpec
    /\ tree[2] = "absent" /\ index[2] = "absent"
    /\ resolved_files = <<1, 2>>

\* C27 (Spec): completion recording is non-fatal: when the update of the
\* Evolution Tracker or of the Timeline Tracker raises, the update of the
\* other tracker has still been attempted, _record_merge_completion has
\* returned (no exception leaves the block) and the result is the success
\* dict.
RecordingFailed == evolution = "failed" \/ timeline = "failed"
C27_RecordingNonFatal ==
    RecordingFailed =>
        /\ evolution # "none" /\ timeline # "none"
        /\ exc[Self] = "none"
        /\ smart_result = ResolutionSuccess(resolved_files,
                                            git_conflicts.conflicting_files)
        /\ smart_result.success

C27_Witness ==
    /\ evolution = "failed" /\ timeline = "merged"
    /\ smart_result.kind = "dict" /\ smart_result.success
    /\ pc[Self] \in AfterWithPcs

\* C28 (Spec): step order under the lock: capture starts only once __enter__
\* has written the lock record, refresh follows capture, git-conflict
\* detection follows refresh and per-file resolution follows detection; while
\* any of them runs the process holds the lock and the lock file is its own
\* record; the lock file is removed by the process only in __exit__; and up
\* to the end of conflict detection no file of the main checkout is written.
BeforeDetectionEnds == {"idle", "enter_exists", "enter_read", "enter_unlink",
                        "enter_write", "locked", "refresh", "check"}
C28_StepOrderUnderLock ==
    [][/\ (pc'[Self] = "locked" /\ pc[Self] # "locked") =>
              /\ pc[Self] = "enter_write"
              /\ acquired'[Self] /\ lockFile' = LockRecord(Self, now)
       /\ (pc'[Self] = "refresh" /\ pc[Self] # "refresh") => pc[Self] = "locked"
       /\ (pc'[Self] = "check" /\ pc[Self] # "check") => pc[Self] = "refresh"
       /\ (pc'[Self] = "resolve" /\ pc[Self] # "resolve") => pc[Self] = "check"
       /\ pc[Self] \in InnerPcs =>
              /\ acquired[Self]
              /\ lockFile.kind = "ok" /\ lockFile.pid = Self
              /\ lockFile' = lockFile
       /\ pc[Self] \in BeforeDetectionEnds =>
              /\ tree = InitialTree /\ index = InitialTree
              /\ tree' = tree /\ index' = index]_vars

C28_Witness ==
    /\ pc[Self] = "resolve"
    /\ captured /\ refreshed
    /\ git_conflicts.has_conflicts
    /\ acquired[Self] /\ lockFile.kind = "ok" /\ lockFile.pid = Self
    /\ tree # InitialTree

\* C29 (Spec): a lock file whose content is not a well-formed record (not
\* JSON, JSON that is not an object, a timestamp or pid of the wrong type)
\* is removed by acquire, which then succeeds: with such a file in place
\* __enter__ neither raises MergeLockError nor any other error.
MalformedKinds == {"notjson", "notobject", "badtype"}
C29_MalformedLockRemoved ==
    lockFile.kind \in MalformedKinds =>
        /\ pc[Self] \notin {"raised", "lockerr"}
        /\ result # "raised"

\* C30 (Spec): the liveness probe reports a process as alive when the null
\* signal is refused with permission-denied, so __enter__ never removes a
\* record of a live process of another user that is at most
\* MERGE_LOCK_TIMEOUT seconds old.
C30_OtherUsersLockKept ==
    ~(/\ reclaimed[Self].kind = "ok"
      /\ reclaimed[Self].pid = OtherUserPid
      /\ now - reclaimed[Self].ts <= MERGE_LOCK_TIMEOUT)

\* C31 (SpecValidate): syntax validation is best-effort: a suffix with no
\* validator is always valid; for JS/TS a missing tool, a timeout, any other
\* error of running a checker and an eslint configuration error give valid;
\* JSON content is invalid exactly when json.loads rejects it.
NoValidatorSuffixes == {".md", ".MJS", ""}
JSONSuffixes == {".json", ".JSON"}
C31_BestEffortValidation ==
    vpc = "done" =>
        /\ vpath \in NoValidatorSuffixes => is_valid = "True"
        /\ (tsc \in CheckerExceptions \/ eslint \in CheckerExceptions
               \/ eslint = "rc2") => is_valid = "True"
        /\ vpath \in JSONSuffixes => (is_valid = "False" <=> ~decodes)

C31_Witness ==
    /\ vpc = "done"
    /\ vpath = ".TSX"
    /\ tsc = "warnings" /\ eslint = "TimeoutExpired"
    /\ is_valid = "True"

\* C32 (SpecSetup): over any sequence of setup_workspace calls of one
\* process the body of _ensure_timeline_hook_installed runs at most once and
\* install_hook is called at most once; a call of setup_workspace in which
\* the hook step failed does not fail because of it (it ends as the worktree
\* steps end).
HookStepFailed == hook_outcome \in {"install_raises", "read_raises"}
C32_HookAttemptedOnce ==
    /\ hook_checks <= 1 /\ install_calls <= 1
    /\ install_calls <= hook_checks
    /\ HookStepFailed => spc \in {"worktree", "idle"}
    /\ (HookStepFailed /\ spc = "idle") => setup_result \in {"ok", "worktree_error"}

C32_Witness ==
    /\ setups = MaxSetups /\ spc = "idle"
    /\ hook_checks = 1 /\ install_calls = 1
    /\ hook # "timeline"
    /\ hook_outcome = "skipped"
    /\ setup_result = "ok"

\* C33 (SpecLock): a release never deletes a lock record written by another
\* process: when __exit__ of a process removes the lock file, the file held
\* the record that process wrote.
C33_ReleaseKeepsOthersRecord ==
    [][\A p \in Procs :
          (/\ pc[p] = "exit_unlink" /\ pc'[p] = "released"
           /\ lockFile # NoFile /\ lockFile' = NoFile)
          => (lockFile.kind = "ok" /\ lockFile.pid = p)]_vars

\* C34 (Spec): when merge_existing_build returns True with no_commit false,
\* the merged changes have been committed on the base branch: no successful
\* merge without no_commit ends with the result only staged.
C34_CommittedUnlessNoCommit ==
    (result = "True" /\ ~no_commit) => committed

\* C35 (Spec): in one call of merge_existing_build,
\* WorktreeManager.merge_worktree is invoked at most once, and never once the
\* resolution step has written and staged files in the main checkout.
C35_MergeWorktreeAtMostOnce ==
    [][mwCalls' # mwCalls =>
          /\ mwCalls = 0
          /\ resolved_files = <<>>]_vars

\* C36 (Spec): the result of _check_git_conflicts is consistent:
\* conflicting_files is empty whenever has_conflicts is false and non-empty
\* whenever has_conflicts is true.
C36_ConflictResultConsistent ==
    /\ ~git_conflicts.has_conflicts => git_conflicts.conflicting_files = {}
    /\ git_conflicts.has_conflicts => git_conflicts.conflicting_files # {}

\* C37 (Spec): in a successful conflict-resolution result, resolved_files
\* holds each path at most once and stats.files_merged is the number of
\* distinct paths written or deleted in the main checkout during the run.
WrittenPaths == {f \in Files : tree[f] # InitialTree[f]}
C37_ResolvedFilesDistinct ==
    (pc[Self] = "exit_check" /\ git_conflicts.has_conflicts /\ ReportsSuccess) =>
        /\ \A i \in 1..Len(smart_result.resolved), j \in 1..Len(smart_result.resolved) :
               i # j => smart_result.resolved[i] # smart_result.resolved[j]
        /\ smart_result.files_merged = Cardinality(WrittenPaths)

\* The call runs to its return: each step of _merge_file_with_ai is taken
\* once it is enabled (the AI caller answers or raises).
SpecEngineFair == InitEngine /\ [][NextEngine]_vars /\ WF_vars(NextEngine)

\* C38 (SpecEngineFair): for one conflicting file _merge_file_with_ai always
\* returns, with merged content or None, and calls the AI caller at most
\* three times: at most one region-only call, one full-file call and one
\* syntax-fix retry.
MergedOrNone ==
    \/ returned = NoneValue
    \/ returned.kind \in {"text", "merged_regions", "merged_full", "merged_retry"}
C38_TerminatesWithinThreeCalls ==
    /\ [](/\ Len(ai_calls) <= 3
          /\ \A prompt \in {"conflict_only", "full", "fix"} : CallCount(prompt) <= 1
          /\ epc = "done" => MergedOrNone)
    /\ <>(epc = "done")
C38_Witness ==
    /\ epc = "done"
    /\ ai_calls = <<"conflict_only", "full", "fix">>
    /\ returned = AIText("merged_retry")

\* C39 (SpecStatus): _normalize_status returns one of pending, in_progress,
\* completed, blocked, failed for every value; returns each of these five
\* itself, whatever the whitespace around it and its case; returns pending
\* for every non-string and every string that is neither one of the five nor
\* one of the known variants; and returns its own result unchanged.
KnownVariants == PendingVariants \cup InProgressVariants \cup CompletedVariants
\* the ways of writing a string: pieces in either case, whitespace around
Written(text) ==
    {Spaces(l) \o [i \in 1..Len(text) |-> [text[i] EXCEPT !.upper = u[i]]] \o Spaces(r) :
        l \in 0..MaxPad, r \in 0..MaxPad, u \in [1..Len(text) -> BOOLEAN]}
Recognized == UNION {Written(text) : text \in SchemaStatuses \cup KnownVariants}
C39_NormalizeStatus ==
    status_results # <<>> =>
        /\ \A i \in 1..Len(status_results) : status_results[i] \in SchemaStatuses
        /\ \A five \in SchemaStatuses :
              (status_value.type = "str" /\ status_value.text \in Written(five))
                  => status_results[1] = five
        /\ status_value.type # "str" => status_results[1] = Word("pending")
        /\ (status_value.type = "str" /\ status_value.text \notin Recognized)
              => status_results[1] = Word("pending")
        /\ \A i \in 2..Len(status_results) : status_results[i] = status_results[1]
C39_Witness ==
    /\ status_value = PyString(<<Space, [word |-> "failed", upper |-> TRUE], Space>>)
    /\ status_results = <<Word("failed"), Word("failed")>>

\* C40 (SpecAutoFix): auto_fix_plan returns True exactly when it rewrote
\* the plan file; a call made right after a call returns False and leaves
\* the file as it was; a missing or undecodable plan file gives False and is
\* left untouched.  The second part is stated for calls that meet no I/O
\* error and follow a call that returned without one.
FileAfter(i) == IF i < Len(fix_calls) THEN fix_calls[i + 1].before ELSE plan_file
Completed(i) == fix_calls[i].returned \in {"True", "False"} /\ ~fix_calls[i].error
C40_IdempotentAndTruthful ==
    \A i \in 1..Len(fix_calls) :
        /\ fix_calls[i].returned = "True" <=> fix_calls[i].rewrote
        /\ (i > 1 /\ Completed(i - 1) /\ ~fix_calls[i].error)
              => (fix_calls[i].returned = "False" /\ FileAfter(i) = fix_calls[i].before)
        /\ fix_calls[i].before \in {Missing, NotJSON}
              => (fix_calls[i].returned = "False" /\ FileAfter(i) = fix_calls[i].before)

====
